---- MODULE Spec2Model ----
(***************************************************************************)
(* Model of the text-to-number normalisation and table reshaping code of   *)
(* stock-snapshot (src/src/scraper.ts).                                    *)
(*                                                                         *)
(* Strings are sequences of one-character strings, so that trimming,       *)
(* replacing, prefix parsing and regular-expression search are computed    *)
(* the way the JavaScript built-ins compute them.                          *)
(*                                                                         *)
(* Numbers are exact decimals m * 10^e kept in normal form (m has no       *)
(* trailing zero; 0 is m = 0, e = 0).  Binary floating-point rounding is   *)
(* not modelled: every product and every parse is the exact decimal.       *)
(* A JavaScript value is a record [k, m, e, s] with k one of               *)
(* "num", "null", "NaN", "undefined", "str".                               *)
(***************************************************************************)
EXTENDS Integers, Sequences, FiniteSets, TLC

VARIABLES
    pc,             \* "idle" | "done"
    op,             \* the function called last
    value,          \* parseValue's argument
    ret,            \* parseValue's return value
    input,          \* rawSymbol, statementType, periodType and the page served
    url,            \* the URL requested
    unit,           \* unitText
    fiscalYear,     \* the period labels taken from the header row
    periodEnding,   \* getStockFinancials: the second header row
    financialsMap,  \* row key -> value series, in Object.entries order
    periods,        \* getStockFinancialsV2: quarter and year of each label
    result,         \* getStockFinancialsV2: the value the promise resolves to
    outcome,        \* how the call settled
    response,       \* the HTTP response given to fetchHtmlSafe
    fetched,        \* what fetchHtmlSafe returned
    statistics,     \* getStockStatistics: the record returned
    error,          \* the value the call threw (its promise rejected with)
    calls,          \* calls in flight at once: the local variables of each
    moduleState,    \* the module-level constants: DEBUG_SCRAPER, marketMap
    requests,       \* the URLs of the HTTP requests issued since load, in order
    browsers,       \* the browsers launched since load: who launched it, is it open
    running         \* the call followed step by step through its awaits

\* the variables of a single call followed from its arguments to its result
callVars == <<pc, op, value, ret, input, url, unit, fiscalYear, periodEnding,
              financialsMap, periods, result, outcome, response, fetched,
              statistics, error>>

vars == <<pc, op, value, ret, input, url, unit, fiscalYear, periodEnding,
          financialsMap, periods, result, outcome, response, fetched,
          statistics, error, calls, moduleState, requests, browsers, running>>

\* what a call does to the world outside the process
effectVars == <<requests, browsers, running>>

(***************************************************************************)
(* Bounds of the explored inputs.                                          *)
(***************************************************************************)
MaxPad == 1
MaxIntDigits == 2
MaxFracDigits == 2
MaxLabels == 2
MaxRows == 2
MaxCells == 2

(***************************************************************************)
(* JavaScript values.                                                      *)
(***************************************************************************)
NullV == [k |-> "null", m |-> 0, e |-> 0, s |-> <<>>]
NaNV == [k |-> "NaN", m |-> 0, e |-> 0, s |-> <<>>]
UndefV == [k |-> "undefined", m |-> 0, e |-> 0, s |-> <<>>]
StrV(str) == [k |-> "str", m |-> 0, e |-> 0, s |-> str]

RECURSIVE MkNum(_, _)
MkNum(m, e) ==
    IF m = 0 THEN [k |-> "num", m |-> 0, e |-> 0, s |-> <<>>]
    ELSE IF m % 10 = 0 THEN MkNum(m \div 10, e + 1)
    ELSE [k |-> "num", m |-> m, e |-> e, s |-> <<>>]

RECURSIVE Pow10(_)
Pow10(n) == IF n <= 0 THEN 1 ELSE 10 * Pow10(n - 1)

Abs(n) == IF n < 0 THEN -n ELSE n

\* a * b on numbers (num * multiplier)
Times(a, b) == MkNum(a.m * b.m, a.e + b.e)

isNaN(v) == v.k = "NaN"

(***************************************************************************)
(* String built-ins.                                                       *)
(***************************************************************************)
WhiteSpace == {" ", "\t", "\n"}
DigitChars == {"0", "1", "2", "3", "4", "5", "6", "7", "8", "9"}
UpperChars == <<"A", "B", "C", "D", "E", "F", "G", "H", "I", "J", "K", "L", "M",
                "N", "O", "P", "Q", "R", "S", "T", "U", "V", "W", "X", "Y", "Z">>
LowerChars == <<"a", "b", "c", "d", "e", "f", "g", "h", "i", "j", "k", "l", "m",
                "n", "o", "p", "q", "r", "s", "t", "u", "v", "w", "x", "y", "z">>

DigitVal(c) ==
    CASE c = "0" -> 0 [] c = "1" -> 1 [] c = "2" -> 2 [] c = "3" -> 3
      [] c = "4" -> 4 [] c = "5" -> 5 [] c = "6" -> 6 [] c = "7" -> 7
      [] c = "8" -> 8 [] c = "9" -> 9

RECURSIVE DigitsToInt(_)
DigitsToInt(ds) ==
    IF ds = <<>> THEN 0
    ELSE 10 * DigitsToInt(SubSeq(ds, 1, Len(ds) - 1)) + DigitVal(ds[Len(ds)])

LowerChar(c) ==
    IF \E i \in 1..26 : UpperChars[i] = c
    THEN LowerChars[CHOOSE i \in 1..26 : UpperChars[i] = c]
    ELSE c

UpperChar(c) ==
    IF \E i \in 1..26 : LowerChars[i] = c
    THEN UpperChars[CHOOSE i \in 1..26 : LowerChars[i] = c]
    ELSE c

toLowerCase(str) == [i \in 1..Len(str) |-> LowerChar(str[i])]
toUpperCase(str) == [i \in 1..Len(str) |-> UpperChar(str[i])]

RECURSIVE trimStart(_)
trimStart(str) ==
    IF str # <<>> /\ str[1] \in WhiteSpace THEN trimStart(Tail(str)) ELSE str

RECURSIVE trimEnd(_)
trimEnd(str) ==
    IF str # <<>> /\ str[Len(str)] \in WhiteSpace
    THEN trimEnd(SubSeq(str, 1, Len(str) - 1))
    ELSE str

trim(str) == trimEnd(trimStart(str))

\* str.replace(/c/g, "") for a class of single characters
RemoveAll(str, chars) == SelectSeq(str, LAMBDA c : c \notin chars)

\* str.replace("c", ""): only the first occurrence goes
RemoveFirst(str, c) ==
    IF \E i \in 1..Len(str) : str[i] = c
    THEN LET i == CHOOSE j \in 1..Len(str) :
                      str[j] = c /\ \A h \in 1..(j - 1) : str[h] # c
         IN SubSeq(str, 1, i - 1) \o SubSeq(str, i + 1, Len(str))
    ELSE str

endsWith(str, suffix) ==
    /\ Len(suffix) <= Len(str)
    /\ SubSeq(str, Len(str) - Len(suffix) + 1, Len(str)) = suffix

includes(str, sub) ==
    \E i \in 1..(Len(str) - Len(sub) + 1) : SubSeq(str, i, i + Len(sub) - 1) = sub

RECURSIVE DigitPrefix(_)
DigitPrefix(str) ==
    IF str # <<>> /\ str[1] \in DigitChars
    THEN <<str[1]>> \o DigitPrefix(Tail(str))
    ELSE <<>>

(***************************************************************************)
(* parseFloat(str): leading white space is skipped, then the longest       *)
(* prefix that is a decimal literal (sign, digits, fraction) is the value; *)
(* NaN when there is none.  Exponents and "Infinity" are outside the       *)
(* explored alphabet.                                                      *)
(***************************************************************************)
parseFloat(str) ==
    LET t == trimStart(str)
        signed == t # <<>> /\ t[1] \in {"-", "+"}
        sign == IF t # <<>> /\ t[1] = "-" THEN -1 ELSE 1
        body == IF signed THEN Tail(t) ELSE t
        ip == DigitPrefix(body)
        rest == SubSeq(body, Len(ip) + 1, Len(body))
        fp == IF rest # <<>> /\ rest[1] = "." THEN DigitPrefix(Tail(rest)) ELSE <<>>
    IN IF ip = <<>> /\ fp = <<>> THEN NaNV
       ELSE MkNum(sign * DigitsToInt(ip \o fp), -Len(fp))

(***************************************************************************)
(* Number(str): the whole trimmed string must be a numeric literal; the    *)
(* empty string is 0.  Hex, exponent and "Infinity" forms are outside the  *)
(* explored alphabet.                                                      *)
(***************************************************************************)
Number(str) ==
    LET t == trim(str)
        signed == t # <<>> /\ t[1] \in {"-", "+"}
        sign == IF t # <<>> /\ t[1] = "-" THEN -1 ELSE 1
        body == IF signed THEN Tail(t) ELSE t
        ip == DigitPrefix(body)
        rest == SubSeq(body, Len(ip) + 1, Len(body))
        dotted == rest # <<>> /\ rest[1] = "."
        fp == IF dotted THEN DigitPrefix(Tail(rest)) ELSE <<>>
        whole == IF dotted THEN Len(fp) = Len(rest) - 1 ELSE rest = <<>>
    IN IF t = <<>> THEN MkNum(0, 0)
       ELSE IF whole /\ (ip # <<>> \/ fp # <<>>)
       THEN MkNum(sign * DigitsToInt(ip \o fp), -Len(fp))
       ELSE NaNV

(***************************************************************************)
(* parseFloat(num.toFixed(2)): the decimal rounded to two places, a tie    *)
(* going away from zero.                                                   *)
(***************************************************************************)
toFixed2(num) ==
    IF num.e >= -2 THEN num
    ELSE LET d == Pow10(-2 - num.e)
             q == Abs(num.m) \div d
             r == Abs(num.m) % d
             up == IF 2 * r >= d THEN q + 1 ELSE q
         IN MkNum((IF num.m < 0 THEN -1 ELSE 1) * up, -2)

(***************************************************************************)
(* parseValue (statistics path).                                           *)
(***************************************************************************)
\* if (!value) return null; the three literal sentinels after lower-casing
\* and trimming
isSentinelValue(v) ==
    \/ v = <<>>
    \/ LET lower == trim(toLowerCase(v))
       IN lower = <<"n", "/", "a">> \/ lower = <<"-">> \/ lower = <<"-", "-">>

\* value.replace(/,/g, "").replace("%", "").trim()
cleanValue(v) == trim(RemoveFirst(RemoveAll(v, {","}), "%"))

unitMultiplier(cleaned) ==
    IF endsWith(cleaned, <<"B">>) THEN MkNum(1, 9)
    ELSE IF endsWith(cleaned, <<"M">>) THEN MkNum(1, 6)
    ELSE IF endsWith(cleaned, <<"K">>) THEN MkNum(1, 3)
    ELSE MkNum(1, 0)

\* value.replace("B", "") and the like: the first such letter is removed
stripUnit(cleaned) ==
    IF endsWith(cleaned, <<"B">>) THEN RemoveFirst(cleaned, "B")
    ELSE IF endsWith(cleaned, <<"M">>) THEN RemoveFirst(cleaned, "M")
    ELSE IF endsWith(cleaned, <<"K">>) THEN RemoveFirst(cleaned, "K")
    ELSE cleaned

\* faulty variant: a falsy test in place of isNaN, so that 0 is dropped too
scaledOrNullFalsy(num, multiplier) ==
    IF isNaN(num) \/ num.m = 0 THEN NullV ELSE Times(num, multiplier)

\* faulty variant: no isNaN test, NaN is returned
scaledOrNullUnchecked(num, multiplier) ==
    IF isNaN(num) THEN NaNV ELSE Times(num, multiplier)

\* return isNaN(num) ? null : num * multiplier
scaledOrNull(num, multiplier) ==
    IF isNaN(num) THEN NullV ELSE Times(num, multiplier)

parseValue(v) ==
    IF isSentinelValue(v) THEN NullV
    ELSE LET cleaned == cleanValue(v)
         IN scaledOrNull(parseFloat(stripUnit(cleaned)), unitMultiplier(cleaned))

(***************************************************************************)
(* parseNumber, the numeric parser declared inside getStockOverview        *)
(* (dist/scraper.js): a token ending in a unit letter is not parsed.       *)
(***************************************************************************)
\* text.replace(/,/g, "").replace(/\s+/g, "").replace(/\$/g, "")
cleanedNumberText(text) == RemoveAll(text, {",", "$"} \cup WhiteSpace)

\* /[BMK]$/.test(cleaned)
hasUnitLetter(cleaned) ==
    cleaned # <<>> /\ cleaned[Len(cleaned)] \in {"B", "M", "K"}

\* faulty variant: the unit-letter test is left out, parseFloat reads the
\* digits before the letter
parseNumberNoUnitTest(text) ==
    IF text = <<>> THEN UndefV
    ELSE LET n == parseFloat(cleanedNumberText(text))
         IN IF isNaN(n) THEN UndefV ELSE n

parseNumber(text) ==
    IF text = <<>> THEN UndefV
    ELSE LET cleaned == cleanedNumberText(text)
         IN IF hasUnitLetter(cleaned) THEN UndefV
            ELSE LET n == parseFloat(cleaned)
                 IN IF isNaN(n) THEN UndefV ELSE n

(***************************************************************************)
(* String literals of the source.                                          *)
(***************************************************************************)
DATASOURCE == <<"D", "a", "t", "a", " ", "S", "o", "u", "r", "c", "e">>
DOWNLOAD == <<"D", "o", "w", "n", "l", "o", "a", "d">>
PERCENT == <<"P", "e", "r", "c", "e", "n", "t">>
MILLION == <<"M", "i", "l", "l", "i", "o", "n">>
BILLION == <<"B", "i", "l", "l", "i", "o", "n">>
THOUSAND == <<"T", "h", "o", "u", "s", "a", "n", "d">>
TRILLION == <<"T", "r", "i", "l", "l", "i", "o", "n">>
kFiscalYear == <<"f", "i", "s", "c", "a", "l", "Y", "e", "a", "r">>
kQuarter == <<"q", "u", "a", "r", "t", "e", "r">>
kYear == <<"y", "e", "a", "r">>
ALL == <<"A", "L", "L">>
EPS == <<"E", "P", "S">>
MARGIN == <<"M", "a", "r", "g", "i", "n">>
GROWTH == <<"G", "r", "o", "w", "t", "h">>
YIELD == <<"Y", "i", "e", "l", "d">>
RATIO == <<"R", "a", "t", "i", "o">>
PERSHARE == <<"P", "e", "r", "S", "h", "a", "r", "e">>
TAXRATE == <<"T", "a", "x", "R", "a", "t", "e">>
TURNOVER == <<"T", "u", "r", "n", "o", "v", "e", "r">>
RO == <<"R", "O">>
PAYOUT == <<"P", "a", "y", "o", "u", "t">>
FORWARDPE == <<"F", "o", "r", "w", "a", "r", "d", "P", "E">>
PER_SHARE == <<"P", "e", "r", " ", "S", "h", "a", "r", "e">>
TAX_RATE == <<"T", "a", "x", " ", "R", "a", "t", "e">>

(***************************************************************************)
(* JavaScript arrays and objects.                                          *)
(***************************************************************************)
\* Array.prototype.slice(from, to) with 0-based, possibly negative, indices
slice(arr, from, to) ==
    LET n == Len(arr)
        lo == IF from < 0 THEN (IF n + from < 0 THEN 0 ELSE n + from)
              ELSE (IF from > n THEN n ELSE from)
        hi == IF to < 0 THEN (IF n + to < 0 THEN 0 ELSE n + to)
              ELSE (IF to > n THEN n ELSE to)
    IN SubSeq(arr, lo + 1, hi)

\* arr[index] with a 0-based index: undefined past the end
At(arr, index) == IF index + 1 \in 1..Len(arr) THEN arr[index + 1] ELSE UndefV

\* a ?? b
Nullish(a, b) == IF a.k \in {"undefined", "null"} THEN b ELSE a

\* A property name that is an array index ("0", "7", "2024"): such keys are
\* enumerated first, in ascending numeric order, whatever the insertion order.
IsArrayIndex(key) ==
    /\ key # <<>>
    /\ Len(key) <= 9
    /\ \A i \in 1..Len(key) : key[i] \in DigitChars
    /\ (key[1] = "0" => Len(key) = 1)

HasKey(obj, key) == \E i \in 1..Len(obj) : obj[i].key = key

\* obj[key] = val, keeping the enumeration order of Object.entries
ObjSet(obj, key, val) ==
    IF HasKey(obj, key)
    THEN [i \in 1..Len(obj) |-> IF obj[i].key = key THEN [key |-> key, val |-> val]
                                 ELSE obj[i]]
    ELSE IF IsArrayIndex(key)
    THEN LET before == SelectSeq(obj, LAMBDA en :
                          IsArrayIndex(en.key) /\ DigitsToInt(en.key) < DigitsToInt(key))
         IN before \o <<[key |-> key, val |-> val]>>
                   \o SubSeq(obj, Len(before) + 1, Len(obj))
    ELSE Append(obj, [key |-> key, val |-> val])

ObjGet(obj, key) ==
    IF HasKey(obj, key)
    THEN obj[CHOOSE i \in 1..Len(obj) : obj[i].key = key].val
    ELSE UndefV

(***************************************************************************)
(* Pattern replacement used on the unit caption and on keys.               *)
(***************************************************************************)
startsWith(str, prefix) ==
    Len(prefix) <= Len(str) /\ SubSeq(str, 1, Len(prefix)) = prefix

\* str.replace(/Data Source|Download/g, "")
RECURSIVE RemoveDataSourceDownload(_)
RemoveDataSourceDownload(str) ==
    IF str = <<>> THEN <<>>
    ELSE IF startsWith(str, DATASOURCE)
    THEN RemoveDataSourceDownload(SubSeq(str, Len(DATASOURCE) + 1, Len(str)))
    ELSE IF startsWith(str, DOWNLOAD)
    THEN RemoveDataSourceDownload(SubSeq(str, Len(DOWNLOAD) + 1, Len(str)))
    ELSE <<str[1]>> \o RemoveDataSourceDownload(Tail(str))

\* str.replace(/\s+/g, " ")
RECURSIVE CollapseWhiteSpace(_)
CollapseWhiteSpace(str) ==
    IF str = <<>> THEN <<>>
    ELSE IF str[1] \in WhiteSpace
    THEN <<" ">> \o CollapseWhiteSpace(trimStart(str))
    ELSE <<str[1]>> \o CollapseWhiteSpace(Tail(str))

\* str.replace(/%/g, "Percent")
RECURSIVE ReplacePercent(_)
ReplacePercent(str) ==
    IF str = <<>> THEN <<>>
    ELSE IF str[1] = "%" THEN PERCENT \o ReplacePercent(Tail(str))
    ELSE <<str[1]>> \o ReplacePercent(Tail(str))

unitTextOf(unitRaw) == trim(CollapseWhiteSpace(RemoveDataSourceDownload(trim(unitRaw))))

\* faulty variant: "Billion" is tested before "Million"
multiplierOfBillionFirst(unitText) ==
    IF includes(unitText, BILLION) THEN MkNum(1, 9)
    ELSE IF includes(unitText, MILLION) THEN MkNum(1, 6)
    ELSE IF includes(unitText, THOUSAND) THEN MkNum(1, 3)
    ELSE IF includes(unitText, TRILLION) THEN MkNum(1, 12)
    ELSE MkNum(1, 0)

multiplierOf(unitText) ==
    IF includes(unitText, MILLION) THEN MkNum(1, 6)
    ELSE IF includes(unitText, BILLION) THEN MkNum(1, 9)
    ELSE IF includes(unitText, THOUSAND) THEN MkNum(1, 3)
    ELSE IF includes(unitText, TRILLION) THEN MkNum(1, 12)
    ELSE MkNum(1, 0)

(***************************************************************************)
(* getStockFinancialsV2: unit, header, body rows, records.                 *)
(***************************************************************************)
\* faulty variant: "RO" counts only at the start of ROE, ROA, ROIC and ROCE
isRatioKeyV2NamedReturns(key) ==
    \/ includes(key, EPS) \/ includes(key, MARGIN) \/ includes(key, GROWTH)
    \/ includes(key, YIELD) \/ includes(key, RATIO) \/ includes(key, PERSHARE)
    \/ includes(key, TAXRATE) \/ includes(key, TURNOVER)
    \/ includes(key, <<"R", "O", "E">>) \/ includes(key, <<"R", "O", "A">>)
    \/ includes(key, <<"R", "O", "I", "C">>) \/ includes(key, <<"R", "O", "C", "E">>)
    \/ includes(key, PAYOUT) \/ includes(key, FORWARDPE)

isRatioKeyV2(key) ==
    \/ includes(key, EPS) \/ includes(key, MARGIN) \/ includes(key, GROWTH)
    \/ includes(key, YIELD) \/ includes(key, RATIO) \/ includes(key, PERSHARE)
    \/ includes(key, TAXRATE) \/ includes(key, TURNOVER) \/ includes(key, RO)
    \/ includes(key, PAYOUT) \/ includes(key, FORWARDPE)

cellTextOf(cellText) == RemoveAll(RemoveAll(trim(cellText), {","}), {"$"})

\* faulty variant: the empty text is not tested, and Number("") is 0
cellValueV2NoEmptyTest(key, multiplier, cellText) ==
    LET text == cellTextOf(cellText) IN
    IF text = <<"-">> THEN NullV
    ELSE LET num == Number(RemoveFirst(text, "%")) IN
         IF isNaN(num) THEN NullV
         ELSE IF isRatioKeyV2(key) THEN toFixed2(num)
         ELSE Times(num, multiplier)

cellValueV2(key, multiplier, cellText) ==
    LET text == cellTextOf(cellText) IN
    IF text = <<"-">> \/ text = <<>> THEN NullV
    ELSE LET num == Number(RemoveFirst(text, "%")) IN
         IF isNaN(num) THEN NullV
         ELSE IF isRatioKeyV2(key) THEN toFixed2(num)
         ELSE Times(num, multiplier)

\* $(cells[0]).text().trim().replace(/\s/g, ""); no first cell gives ""
rowKeyV2(cells) ==
    RemoveAll(trim(IF cells = <<>> THEN <<>> ELSE cells[1]), WhiteSpace)

rowValuesV2(cells, multiplier) ==
    LET key == rowKeyV2(cells)
        sl == slice(cells, 1, -1)
    IN [i \in 1..Len(sl) |-> cellValueV2(key, multiplier, sl[i])]

RECURSIVE financialsMapV2(_, _, _)
financialsMapV2(rows, multiplier, acc) ==
    IF rows = <<>> THEN acc
    ELSE LET key == rowKeyV2(rows[1]) IN
         financialsMapV2(Tail(rows), multiplier,
            IF key = <<>> THEN acc
            ELSE ObjSet(acc, key, rowValuesV2(rows[1], multiplier)))

\* faulty variant: the first header cell is kept, only the last is dropped
fiscalYearV2KeepFirst(thead) ==
    LET ths == slice(thead, 0, -1)
    IN [i \in 1..Len(ths) |-> trim(ths[i])]

fiscalYearV2(thead) ==
    LET ths == slice(slice(thead, 1, Len(thead)), 0, -1)
    IN [i \in 1..Len(ths) |-> trim(ths[i])]

\* faulty variant: "%" is replaced once, not globally
newKeyOfFirstPercent(key) ==
    LET bare == RemoveAll(RemoveAll(key, {"/", "(", ")"}), WhiteSpace)
    IN IF \E i \in 1..Len(bare) : bare[i] = "%"
       THEN LET i == CHOOSE j \in 1..Len(bare) :
                         bare[j] = "%" /\ \A h \in 1..(j - 1) : bare[h] # "%"
            IN SubSeq(bare, 1, i - 1) \o PERCENT \o SubSeq(bare, i + 1, Len(bare))
       ELSE bare

\* key.replace(/[\/()]/g, "").replace(/\s+/g, "").replace(/%/g, "Percent")
newKeyOf(key) ==
    ReplacePercent(RemoveAll(RemoveAll(key, {"/", "(", ")"}), WhiteSpace))

RECURSIVE normalizeKeysFrom(_, _)
normalizeKeysFrom(entries, normalized) ==
    IF entries = <<>> THEN normalized
    ELSE normalizeKeysFrom(Tail(entries),
            ObjSet(normalized, newKeyOf(entries[1].key), entries[1].val))

normalizeKeys(obj) == normalizeKeysFrom(obj, <<>>)

\* label.match(/(Q\d)\s+(\d{4})/): the leftmost match, its two groups
FourDigitsAt(str, j) ==
    j + 3 <= Len(str) /\ \A h \in j..(j + 3) : str[h] \in DigitChars

QuarterAt(str, i) ==
    /\ i + 1 <= Len(str)
    /\ str[i] = "Q"
    /\ str[i + 1] \in DigitChars
    /\ LET rest == SubSeq(str, i + 2, Len(str))
           w == Len(rest) - Len(trimStart(rest))
       IN w >= 1 /\ FourDigitsAt(str, i + 2 + w)

matchQuarter(str) ==
    IF \E i \in 1..Len(str) : QuarterAt(str, i)
    THEN LET i == CHOOSE j \in 1..Len(str) :
                      QuarterAt(str, j) /\ \A h \in 1..(j - 1) : ~QuarterAt(str, h)
             rest == SubSeq(str, i + 2, Len(str))
             w == Len(rest) - Len(trimStart(rest))
         IN [found |-> TRUE, g1 |-> SubSeq(str, i, i + 1),
             g2 |-> SubSeq(str, i + 2 + w, i + 5 + w)]
    ELSE [found |-> FALSE, g1 |-> <<>>, g2 |-> <<>>]

\* label.match(/FY\s+(\d{4})/)
FYAt(str, i) ==
    /\ i + 1 <= Len(str)
    /\ str[i] = "F"
    /\ str[i + 1] = "Y"
    /\ LET rest == SubSeq(str, i + 2, Len(str))
           w == Len(rest) - Len(trimStart(rest))
       IN w >= 1 /\ FourDigitsAt(str, i + 2 + w)

matchFY(str) ==
    IF \E i \in 1..Len(str) : FYAt(str, i)
    THEN LET i == CHOOSE j \in 1..Len(str) :
                      FYAt(str, j) /\ \A h \in 1..(j - 1) : ~FYAt(str, h)
             rest == SubSeq(str, i + 2, Len(str))
             w == Len(rest) - Len(trimStart(rest))
         IN [found |-> TRUE, g1 |-> SubSeq(str, i + 2 + w, i + 5 + w), g2 |-> <<>>]
    ELSE [found |-> FALSE, g1 |-> <<>>, g2 |-> <<>>]

\* faulty variant: the fiscal-year pattern is tried before the quarter pattern
periodOfFYFirst(fiscalLabel) ==
    LET mq == matchQuarter(fiscalLabel)
        mf == matchFY(fiscalLabel)
    IN IF mf.found THEN [quarter |-> ALL, year |-> mf.g1]
       ELSE IF mq.found THEN [quarter |-> mq.g1, year |-> mq.g2]
       ELSE [quarter |-> ALL, year |-> fiscalLabel]

periodOf(fiscalLabel) ==
    LET mq == matchQuarter(fiscalLabel)
        mf == matchFY(fiscalLabel)
    IN IF mq.found THEN [quarter |-> mq.g1, year |-> mq.g2]
       ELSE IF mf.found THEN [quarter |-> ALL, year |-> mf.g1]
       ELSE [quarter |-> ALL, year |-> fiscalLabel]

\* faulty variant: no "?? null", a missing entry stays undefined
fieldAtNoDefault(valueArr, index) == At(valueArr, index)

\* record[key] = valueArr[index] ?? null
fieldAt(valueArr, index) == Nullish(At(valueArr, index), NullV)

RECURSIVE fillRecord(_, _, _)
fillRecord(record, entries, index) ==
    IF entries = <<>> THEN record
    ELSE fillRecord(ObjSet(record, entries[1].key, fieldAt(entries[1].val, index)),
                    Tail(entries), index)

recordOf(fiscalLabel, index, fmap) ==
    LET p == periodOf(fiscalLabel)
        base == << [key |-> kFiscalYear, val |-> StrV(fiscalLabel)],
                   [key |-> kQuarter, val |-> StrV(p.quarter)],
                   [key |-> kYear, val |-> StrV(p.year)] >>
    IN fillRecord(base, normalizeKeys(fmap), index)

reshapeV2(labels, fmap) ==
    [i \in 1..Len(labels) |-> recordOf(labels[i], i - 1, fmap)]


URL_STOCKS ==
    <<"h", "t", "t", "p", "s", ":", "/", "/", "s", "t", "o", "c", "k", "a",
    "n", "a", "l", "y", "s", "i", "s", ".", "c", "o", "m", "/", "s", "t",
    "o", "c", "k", "s", "/">>
URL_QUOTE ==
    <<"h", "t", "t", "p", "s", ":", "/", "/", "s", "t", "o", "c", "k", "a",
    "n", "a", "l", "y", "s", "i", "s", ".", "c", "o", "m", "/", "q", "u",
    "o", "t", "e", "/">>
URL_QUOTE_BKK ==
    <<"h", "t", "t", "p", "s", ":", "/", "/", "s", "t", "o", "c", "k", "a",
    "n", "a", "l", "y", "s", "i", "s", ".", "c", "o", "m", "/", "q", "u",
    "o", "t", "e", "/", "b", "k", "k", "/">>
PATH_FINANCIALS ==
    <<"f", "i", "n", "a", "n", "c", "i", "a", "l", "s", "/">>
PATH_BALANCE ==
    <<"f", "i", "n", "a", "n", "c", "i", "a", "l", "s", "/", "b", "a", "l",
    "a", "n", "c", "e", "-", "s", "h", "e", "e", "t", "/">>
PATH_CASHFLOW ==
    <<"f", "i", "n", "a", "n", "c", "i", "a", "l", "s", "/", "c", "a", "s",
    "h", "-", "f", "l", "o", "w", "-", "s", "t", "a", "t", "e", "m", "e",
    "n", "t", "/">>
PATH_RATIOS ==
    <<"f", "i", "n", "a", "n", "c", "i", "a", "l", "s", "/", "r", "a", "t",
    "i", "o", "s", "/">>
QUERY_QUARTERLY ==
    <<"?", "p", "=", "q", "u", "a", "r", "t", "e", "r", "l", "y">>
QUERY_TRAILING ==
    <<"?", "p", "=", "t", "r", "a", "i", "l", "i", "n", "g">>
BKK_PREFIX ==
    <<"B", "K", "K", ":">>
BK_SUFFIX ==
    <<".", "B", "K">>

marketMap ==
    << [suffix |-> <<".", "B", "K">>, market |-> <<"b", "k", "k">>],
       [suffix |-> <<".", "V", "N">>, market |-> <<"h", "o", "s", "e">>],
       [suffix |-> <<".", "I", "N">>, market |-> <<"n", "s", "e">>],
       [suffix |-> <<".", "J", "P">>, market |-> <<"t", "y", "o">>],
       [suffix |-> <<".", "M", "X">>, market |-> <<"b", "m", "v">>],
       [suffix |-> <<".", "I", "D">>, market |-> <<"i", "d", "x">>] >>

US == <<"u", "s">>

\* /^(BKK:|.+\.BK)$/i.test(symbol): the anchors bind both alternatives
detectMarket(symbol) ==
    LET u == toUpperCase(symbol)
    IN IF u = BKK_PREFIX \/ (Len(u) >= 4 /\ endsWith(u, BK_SUFFIX))
       THEN <<"b", "k", "k">> ELSE US

statementPath(statementType) ==
    IF statementType = "Balance Sheet" THEN PATH_BALANCE
    ELSE IF statementType = "Cash Flow" THEN PATH_CASHFLOW
    ELSE IF statementType = "Ratios" THEN PATH_RATIOS
    ELSE PATH_FINANCIALS

periodQuery(periodType) ==
    IF periodType = "Quarterly" THEN QUERY_QUARTERLY
    ELSE IF periodType = "TTM" THEN QUERY_TRAILING
    ELSE <<>>

\* faulty variant: the suffix is compared with the symbol as written
suffixIndexCaseSensitive(rawSymbol) ==
    LET hits == {i \in 1..Len(marketMap) : endsWith(rawSymbol, marketMap[i].suffix)}
    IN IF hits = {} THEN 0 ELSE CHOOSE i \in hits : \A j \in hits : i <= j

\* the first suffix of marketMap, in its order, that ends the upper-cased symbol
suffixIndex(rawSymbol) ==
    LET hits == {i \in 1..Len(marketMap) :
                    endsWith(toUpperCase(rawSymbol), marketMap[i].suffix)}
    IN IF hits = {} THEN 0 ELSE CHOOSE i \in hits : \A j \in hits : i <= j

urlV2(rawSymbol, statementType, periodType) ==
    LET si == suffixIndex(rawSymbol)
        market == IF si = 0 THEN US ELSE marketMap[si].market
        cut == IF si = 0 THEN rawSymbol
               ELSE SubSeq(rawSymbol, 1, Len(rawSymbol) - Len(marketMap[si].suffix))
        symbol == IF startsWith(toUpperCase(cut), BKK_PREFIX)
                  THEN SubSeq(cut, Len(BKK_PREFIX) + 1, Len(cut)) ELSE cut
        baseUrl == IF market = US THEN URL_STOCKS \o toLowerCase(symbol) \o <<"/">>
                   ELSE URL_QUOTE \o market \o <<"/">> \o symbol \o <<"/">>
    IN baseUrl \o statementPath(statementType) \o periodQuery(periodType)

urlV1(rawSymbol, statementType, periodType) ==
    LET noPrefix == IF startsWith(rawSymbol, BKK_PREFIX)
                    THEN SubSeq(rawSymbol, Len(BKK_PREFIX) + 1, Len(rawSymbol))
                    ELSE rawSymbol
        symbol == IF endsWith(noPrefix, BK_SUFFIX)
                  THEN SubSeq(noPrefix, 1, Len(noPrefix) - Len(BK_SUFFIX))
                  ELSE noPrefix
        baseUrl == IF detectMarket(rawSymbol) = <<"b", "k", "k">>
                   THEN URL_QUOTE_BKK \o symbol \o <<"/">>
                   ELSE URL_STOCKS \o symbol \o <<"/">>
    IN baseUrl \o statementPath(statementType) \o periodQuery(periodType)

(***************************************************************************)
(* getStockFinancials (column-oriented variant).                           *)
(***************************************************************************)
isRatioKeyV1(key) ==
    \/ includes(key, MARGIN) \/ includes(key, GROWTH) \/ includes(key, YIELD)
    \/ includes(key, RATIO) \/ includes(key, PER_SHARE) \/ includes(key, TAX_RATE)
    \/ includes(key, TURNOVER) \/ includes(key, RO) \/ includes(key, PAYOUT)

cellValueV1(key, multiplier, cellText) ==
    LET text == cellTextOf(cellText) IN
    IF text = <<"-">> \/ text = <<>> THEN NullV
    ELSE LET num == Number(text) IN
         IF isNaN(num) THEN NullV
         ELSE IF isRatioKeyV1(key) THEN toFixed2(num)
         ELSE Times(num, multiplier)

rowKeyV1(cells) == trim(IF cells = <<>> THEN <<>> ELSE cells[1])

rowValuesV1(cells, multiplier) ==
    LET key == rowKeyV1(cells)
        sl == slice(cells, 1, -1)
    IN [i \in 1..Len(sl) |-> cellValueV1(key, multiplier, sl[i])]

RECURSIVE financialsV1(_, _, _)
financialsV1(rows, multiplier, acc) ==
    IF rows = <<>> THEN acc
    ELSE LET key == rowKeyV1(rows[1]) IN
         financialsV1(Tail(rows), multiplier,
            IF key = <<>> THEN acc
            ELSE ObjSet(acc, key, rowValuesV1(rows[1], multiplier)))

fiscalYearV1(thead) ==
    LET ths == slice(slice(thead, 1, Len(thead)), 1, -1)
    IN [i \in 1..Len(ths) |-> trim(ths[i])]

\* each th of the second header row: its hidden span's text, else its own text
periodEndingV1(thead2) ==
    LET ths == slice(slice(thead2, 1, Len(thead2)), 1, -1)
    IN [i \in 1..Len(ths) |->
          IF trim(ths[i].hidden) # <<>> THEN trim(ths[i].hidden) ELSE trim(ths[i].text)]

(***************************************************************************)
(* getStockStatistics: the record of statistics and the dispatch of the    *)
(* table rows on their labels.                                             *)
(***************************************************************************)
\* the fields of the object literal `statistics`
statisticsFields ==
    {"marketCap", "enterpriseValue", "earningsDate", "exDividendDate",
     "sharesOutstanding", "sharesChangeYoY", "sharesChangeQoQ",
     "ownedByInstitutions", "peRatio", "forwardPERatio", "psRatio",
     "pbRatio", "ptbvRatio", "pfcfRatio", "pocfRatio", "pegRatio",
     "evEarnings", "evSales", "evEbitda", "evEbit", "evFcf", "currentRatio",
     "quickRatio", "debtToEquity", "debtToEbitda", "debtToFcf",
     "interestCoverage", "returnOnEquity", "returnOnAssets",
     "returnOnInvestedCapital", "returnOnCapitalEmployed", "beta5Y",
     "priceChange52W", "movingAverage50D", "movingAverage200D", "rsi",
     "averageVolume20D", "revenue", "grossProfit", "operatingIncome",
     "pretaxIncome", "netIncome", "ebitda", "ebit", "eps", "cash",
     "totalDebt", "netCash", "netCashPerShare", "bookValue",
     "bookValuePerShare", "workingCapital", "operatingCashFlow",
     "capitalExpenditures", "freeCashFlow", "freeCashFlowPerShare",
     "grossMargin", "operatingMargin", "pretaxMargin", "profitMargin",
     "ebitdaMargin", "ebitMargin", "fcfMargin", "dividendPerShare",
     "dividendYield", "dividendGrowth", "payoutRatio", "buybackYield",
     "shareholderYield", "earningsYield", "fcfYield", "altmanZScore",
     "piotroskiFScore"}

\* const statistics = { marketCap: null, ... }
newStatistics == [f \in statisticsFields |-> NullV]

\* the cases of switch (key): the label, the field assigned, and whether the
\* raw text (value) or the parsed number (numericValue) is assigned
statisticsCases ==
    <<
       [label |-> <<"M", "a", "r", "k", "e", "t", " ", "C", "a", "p">>,
        field |-> "marketCap", raw |-> FALSE],
       [label |-> <<"E", "n", "t", "e", "r", "p", "r", "i", "s", "e", " ", "V", "a", "l", "u", "e">>,
        field |-> "enterpriseValue", raw |-> FALSE],
       [label |-> <<"E", "a", "r", "n", "i", "n", "g", "s", " ", "D", "a", "t", "e">>,
        field |-> "earningsDate", raw |-> TRUE],
       [label |-> <<"E", "x", "-", "D", "i", "v", "i", "d", "e", "n", "d", " ", "D", "a", "t", "e">>,
        field |-> "exDividendDate", raw |-> TRUE],
       [label |-> <<"S", "h", "a", "r", "e", "s", " ", "O", "u", "t", "s", "t", "a", "n", "d", "i", "n", "g">>,
        field |-> "sharesOutstanding", raw |-> FALSE],
       [label |-> <<"S", "h", "a", "r", "e", "s", " ", "C", "h", "a", "n", "g", "e", " ", "(", "Y", "o", "Y", ")">>,
        field |-> "sharesChangeYoY", raw |-> FALSE],
       [label |-> <<"S", "h", "a", "r", "e", "s", " ", "C", "h", "a", "n", "g", "e", " ", "(", "Q", "o", "Q", ")">>,
        field |-> "sharesChangeQoQ", raw |-> FALSE],
       [label |-> <<"O", "w", "n", "e", "d", " ", "b", "y", " ", "I", "n", "s", "t", "i", "t", "u", "t", "i", "o", "n", "s", " ", "(", "%", ")">>,
        field |-> "ownedByInstitutions", raw |-> FALSE],
       [label |-> <<"P", "E", " ", "R", "a", "t", "i", "o">>,
        field |-> "peRatio", raw |-> FALSE],
       [label |-> <<"F", "o", "r", "w", "a", "r", "d", " ", "P", "E">>,
        field |-> "forwardPERatio", raw |-> FALSE],
       [label |-> <<"P", "S", " ", "R", "a", "t", "i", "o">>,
        field |-> "psRatio", raw |-> FALSE],
       [label |-> <<"P", "B", " ", "R", "a", "t", "i", "o">>,
        field |-> "pbRatio", raw |-> FALSE],
       [label |-> <<"P", "/", "T", "B", "V", " ", "R", "a", "t", "i", "o">>,
        field |-> "ptbvRatio", raw |-> FALSE],
       [label |-> <<"P", "/", "F", "C", "F", " ", "R", "a", "t", "i", "o">>,
        field |-> "pfcfRatio", raw |-> FALSE],
       [label |-> <<"P", "/", "O", "C", "F", " ", "R", "a", "t", "i", "o">>,
        field |-> "pocfRatio", raw |-> FALSE],
       [label |-> <<"P", "E", "G", " ", "R", "a", "t", "i", "o">>,
        field |-> "pegRatio", raw |-> FALSE],
       [label |-> <<"E", "V", " ", "/", " ", "E", "a", "r", "n", "i", "n", "g", "s">>,
        field |-> "evEarnings", raw |-> FALSE],
       [label |-> <<"E", "V", " ", "/", " ", "S", "a", "l", "e", "s">>,
        field |-> "evSales", raw |-> FALSE],
       [label |-> <<"E", "V", " ", "/", " ", "E", "B", "I", "T", "D", "A">>,
        field |-> "evEbitda", raw |-> FALSE],
       [label |-> <<"E", "V", " ", "/", " ", "E", "B", "I", "T">>,
        field |-> "evEbit", raw |-> FALSE],
       [label |-> <<"E", "V", " ", "/", " ", "F", "C", "F">>,
        field |-> "evFcf", raw |-> FALSE],
       [label |-> <<"C", "u", "r", "r", "e", "n", "t", " ", "R", "a", "t", "i", "o">>,
        field |-> "currentRatio", raw |-> FALSE],
       [label |-> <<"Q", "u", "i", "c", "k", " ", "R", "a", "t", "i", "o">>,
        field |-> "quickRatio", raw |-> FALSE],
       [label |-> <<"D", "e", "b", "t", " ", "/", " ", "E", "q", "u", "i", "t", "y">>,
        field |-> "debtToEquity", raw |-> FALSE],
       [label |-> <<"D", "e", "b", "t", " ", "/", " ", "E", "B", "I", "T", "D", "A">>,
        field |-> "debtToEbitda", raw |-> FALSE],
       [label |-> <<"D", "e", "b", "t", " ", "/", " ", "F", "C", "F">>,
        field |-> "debtToFcf", raw |-> FALSE],
       [label |-> <<"I", "n", "t", "e", "r", "e", "s", "t", " ", "C", "o", "v", "e", "r", "a", "g", "e">>,
        field |-> "interestCoverage", raw |-> FALSE],
       [label |-> <<"R", "e", "t", "u", "r", "n", " ", "o", "n", " ", "E", "q", "u", "i", "t", "y", " ", "(", "R", "O", "E", ")">>,
        field |-> "returnOnEquity", raw |-> FALSE],
       [label |-> <<"R", "e", "t", "u", "r", "n", " ", "o", "n", " ", "A", "s", "s", "e", "t", "s", " ", "(", "R", "O", "A", ")">>,
        field |-> "returnOnAssets", raw |-> FALSE],
       [label |-> <<"R", "e", "t", "u", "r", "n", " ", "o", "n", " ", "I", "n", "v", "e", "s", "t", "e", "d", " ", "C", "a", "p", "i", "t", "a", "l", " ", "(", "R", "O", "I", "C", ")">>,
        field |-> "returnOnInvestedCapital", raw |-> FALSE],
       [label |-> <<"R", "e", "t", "u", "r", "n", " ", "o", "n", " ", "C", "a", "p", "i", "t", "a", "l", " ", "E", "m", "p", "l", "o", "y", "e", "d", " ", "(", "R", "O", "C", "E", ")">>,
        field |-> "returnOnCapitalEmployed", raw |-> FALSE],
       [label |-> <<"B", "e", "t", "a", " ", "(", "5", "Y", ")">>,
        field |-> "beta5Y", raw |-> FALSE],
       [label |-> <<"5", "2", "-", "W", "e", "e", "k", " ", "P", "r", "i", "c", "e", " ", "C", "h", "a", "n", "g", "e">>,
        field |-> "priceChange52W", raw |-> FALSE],
       [label |-> <<"5", "0", "-", "D", "a", "y", " ", "M", "o", "v", "i", "n", "g", " ", "A", "v", "e", "r", "a", "g", "e">>,
        field |-> "movingAverage50D", raw |-> FALSE],
       [label |-> <<"2", "0", "0", "-", "D", "a", "y", " ", "M", "o", "v", "i", "n", "g", " ", "A", "v", "e", "r", "a", "g", "e">>,
        field |-> "movingAverage200D", raw |-> FALSE],
       [label |-> <<"R", "e", "l", "a", "t", "i", "v", "e", " ", "S", "t", "r", "e", "n", "g", "t", "h", " ", "I", "n", "d", "e", "x", " ", "(", "R", "S", "I", ")">>,
        field |-> "rsi", raw |-> FALSE],
       [label |-> <<"A", "v", "e", "r", "a", "g", "e", " ", "V", "o", "l", "u", "m", "e", " ", "(", "2", "0", " ", "D", "a", "y", "s", ")">>,
        field |-> "averageVolume20D", raw |-> FALSE],
       [label |-> <<"R", "e", "v", "e", "n", "u", "e">>,
        field |-> "revenue", raw |-> FALSE],
       [label |-> <<"G", "r", "o", "s", "s", " ", "P", "r", "o", "f", "i", "t">>,
        field |-> "grossProfit", raw |-> FALSE],
       [label |-> <<"O", "p", "e", "r", "a", "t", "i", "n", "g", " ", "I", "n", "c", "o", "m", "e">>,
        field |-> "operatingIncome", raw |-> FALSE],
       [label |-> <<"P", "r", "e", "t", "a", "x", " ", "I", "n", "c", "o", "m", "e">>,
        field |-> "pretaxIncome", raw |-> FALSE],
       [label |-> <<"N", "e", "t", " ", "I", "n", "c", "o", "m", "e">>,
        field |-> "netIncome", raw |-> FALSE],
       [label |-> <<"E", "B", "I", "T", "D", "A">>,
        field |-> "ebitda", raw |-> FALSE],
       [label |-> <<"E", "B", "I", "T">>,
        field |-> "ebit", raw |-> FALSE],
       [label |-> <<"E", "a", "r", "n", "i", "n", "g", "s", " ", "P", "e", "r", " ", "S", "h", "a", "r", "e", " ", "(", "E", "P", "S", ")">>,
        field |-> "eps", raw |-> FALSE],
       [label |-> <<"C", "a", "s", "h", " ", "&", " ", "C", "a", "s", "h", " ", "E", "q", "u", "i", "v", "a", "l", "e", "n", "t", "s">>,
        field |-> "cash", raw |-> FALSE],
       [label |-> <<"T", "o", "t", "a", "l", " ", "D", "e", "b", "t">>,
        field |-> "totalDebt", raw |-> FALSE],
       [label |-> <<"N", "e", "t", " ", "C", "a", "s", "h">>,
        field |-> "netCash", raw |-> FALSE],
       [label |-> <<"N", "e", "t", " ", "C", "a", "s", "h", " ", "P", "e", "r", " ", "S", "h", "a", "r", "e">>,
        field |-> "netCashPerShare", raw |-> FALSE],
       [label |-> <<"E", "q", "u", "i", "t", "y", " ", "(", "B", "o", "o", "k", " ", "V", "a", "l", "u", "e", ")">>,
        field |-> "bookValue", raw |-> FALSE],
       [label |-> <<"B", "o", "o", "k", " ", "V", "a", "l", "u", "e", " ", "P", "e", "r", " ", "S", "h", "a", "r", "e">>,
        field |-> "bookValuePerShare", raw |-> FALSE],
       [label |-> <<"W", "o", "r", "k", "i", "n", "g", " ", "C", "a", "p", "i", "t", "a", "l">>,
        field |-> "workingCapital", raw |-> FALSE],
       [label |-> <<"O", "p", "e", "r", "a", "t", "i", "n", "g", " ", "C", "a", "s", "h", " ", "F", "l", "o", "w">>,
        field |-> "operatingCashFlow", raw |-> FALSE],
       [label |-> <<"C", "a", "p", "i", "t", "a", "l", " ", "E", "x", "p", "e", "n", "d", "i", "t", "u", "r", "e", "s">>,
        field |-> "capitalExpenditures", raw |-> FALSE],
       [label |-> <<"F", "r", "e", "e", " ", "C", "a", "s", "h", " ", "F", "l", "o", "w">>,
        field |-> "freeCashFlow", raw |-> FALSE],
       [label |-> <<"F", "C", "F", " ", "P", "e", "r", " ", "S", "h", "a", "r", "e">>,
        field |-> "freeCashFlowPerShare", raw |-> FALSE],
       [label |-> <<"G", "r", "o", "s", "s", " ", "M", "a", "r", "g", "i", "n">>,
        field |-> "grossMargin", raw |-> FALSE],
       [label |-> <<"O", "p", "e", "r", "a", "t", "i", "n", "g", " ", "M", "a", "r", "g", "i", "n">>,
        field |-> "operatingMargin", raw |-> FALSE],
       [label |-> <<"P", "r", "e", "t", "a", "x", " ", "M", "a", "r", "g", "i", "n">>,
        field |-> "pretaxMargin", raw |-> FALSE],
       [label |-> <<"P", "r", "o", "f", "i", "t", " ", "M", "a", "r", "g", "i", "n">>,
        field |-> "profitMargin", raw |-> FALSE],
       [label |-> <<"E", "B", "I", "T", "D", "A", " ", "M", "a", "r", "g", "i", "n">>,
        field |-> "ebitdaMargin", raw |-> FALSE],
       [label |-> <<"E", "B", "I", "T", " ", "M", "a", "r", "g", "i", "n">>,
        field |-> "ebitMargin", raw |-> FALSE],
       [label |-> <<"F", "C", "F", " ", "M", "a", "r", "g", "i", "n">>,
        field |-> "fcfMargin", raw |-> FALSE],
       [label |-> <<"D", "i", "v", "i", "d", "e", "n", "d", " ", "P", "e", "r", " ", "S", "h", "a", "r", "e">>,
        field |-> "dividendPerShare", raw |-> FALSE],
       [label |-> <<"D", "i", "v", "i", "d", "e", "n", "d", " ", "Y", "i", "e", "l", "d">>,
        field |-> "dividendYield", raw |-> FALSE],
       [label |-> <<"D", "i", "v", "i", "d", "e", "n", "d", " ", "G", "r", "o", "w", "t", "h", " ", "(", "Y", "o", "Y", ")">>,
        field |-> "dividendGrowth", raw |-> FALSE],
       [label |-> <<"P", "a", "y", "o", "u", "t", " ", "R", "a", "t", "i", "o">>,
        field |-> "payoutRatio", raw |-> FALSE],
       [label |-> <<"B", "u", "y", "b", "a", "c", "k", " ", "Y", "i", "e", "l", "d">>,
        field |-> "buybackYield", raw |-> FALSE],
       [label |-> <<"S", "h", "a", "r", "e", "h", "o", "l", "d", "e", "r", " ", "Y", "i", "e", "l", "d">>,
        field |-> "shareholderYield", raw |-> FALSE],
       [label |-> <<"E", "a", "r", "n", "i", "n", "g", "s", " ", "Y", "i", "e", "l", "d">>,
        field |-> "earningsYield", raw |-> FALSE],
       [label |-> <<"F", "C", "F", " ", "Y", "i", "e", "l", "d">>,
        field |-> "fcfYield", raw |-> FALSE],
       [label |-> <<"A", "l", "t", "m", "a", "n", " ", "Z", "-", "S", "c", "o", "r", "e">>,
        field |-> "altmanZScore", raw |-> FALSE],
       [label |-> <<"P", "i", "o", "t", "r", "o", "s", "k", "i", " ", "F", "-", "S", "c", "o", "r", "e">>,
        field |-> "piotroskiFScore", raw |-> FALSE]
    >>

\* faulty variant: the free-text cases assign the parsed number too
assignedValueAllParsed(raw, val) == parseValue(val)

\* statistics.f = value (the two date cases) or = numericValue (parseValue(value))
assignedValue(raw, val) == IF raw THEN StrV(val) ELSE parseValue(val)

\* faulty variant: the label is compared without regard to letter case
caseOfAnyLetterCase(key) ==
    LET hits == {i \in 1..Len(statisticsCases) :
                    toLowerCase(statisticsCases[i].label) = toLowerCase(key)}
    IN IF hits = {} THEN 0 ELSE CHOOSE i \in hits : \A j \in hits : i <= j

\* switch (key): strict equality with a case label, the first that matches; 0
\* when none does (there is no default case)
caseOf(key) ==
    LET hits == {i \in 1..Len(statisticsCases) : statisticsCases[i].label = key}
    IN IF hits = {} THEN 0 ELSE CHOOSE i \in hits : \A j \in hits : i <= j

\* $(row).find("td").first().text().trim(); "" when the row has no td
firstTdText(row) == trim(IF row = <<>> THEN <<>> ELSE row[1])

\* $(row).find("td").last().text().trim()
lastTdText(row) == trim(IF row = <<>> THEN <<>> ELSE row[Len(row)])

\* faulty variant: a field already set by an earlier row is left alone
statisticsAfterRowKeepFirst(stats, row) ==
    LET c == caseOf(firstTdText(row))
    IN IF c = 0 \/ stats[statisticsCases[IF c = 0 THEN 1 ELSE c].field] # NullV
       THEN stats
       ELSE (statisticsCases[c].field
                :> assignedValue(statisticsCases[c].raw, lastTdText(row))) @@ stats

\* the body of the row callback: one property of the record is assigned, or none
statisticsAfterRow(stats, row) ==
    LET c == caseOf(firstTdText(row))
    IN IF c = 0 THEN stats
       ELSE (statisticsCases[c].field
                :> assignedValue(statisticsCases[c].raw, lastTdText(row))) @@ stats

\* every tr of every table.w-full, in document order
RECURSIVE statisticsAfterRows(_, _)
statisticsAfterRows(stats, rows) ==
    IF rows = <<>> THEN stats
    ELSE statisticsAfterRows(statisticsAfterRow(stats, rows[1]), Tail(rows))

PATH_STATISTICS == <<"s", "t", "a", "t", "i", "s", "t", "i", "c", "s", "/">>

\* getStockStatistics: market and symbol from the suffix, the BKK: prefix cut,
\* the URL of the statistics page
urlStatistics(rawSymbol) ==
    LET si == suffixIndex(rawSymbol)
        market == IF si = 0 THEN US ELSE marketMap[si].market
        cut == IF si = 0 THEN rawSymbol
               ELSE SubSeq(rawSymbol, 1, Len(rawSymbol) - Len(marketMap[si].suffix))
        symbol == IF startsWith(toUpperCase(cut), BKK_PREFIX)
                  THEN SubSeq(cut, Len(BKK_PREFIX) + 1, Len(cut)) ELSE cut
    IN IF market = US
       THEN URL_STOCKS \o toLowerCase(symbol) \o <<"/">> \o PATH_STATISTICS
       ELSE URL_QUOTE \o market \o <<"/">> \o symbol \o <<"/">> \o PATH_STATISTICS

(***************************************************************************)
(* fetchHtmlSafe.  A response is its status and res.data; res.data is a    *)
(* string (an HTML document: its text outside the statistics tables and    *)
(* the td texts of the table rows), or what axios makes of a JSON body (an *)
(* object, a number), or undefined.                                        *)
(***************************************************************************)
PAGE_NOT_FOUND == <<"P", "a", "g", "e", " ", "N", "o", "t", " ", "F", "o", "u", "n", "d">>
INVALID_PAGE == <<"I", "n", "v", "a", "l", "i", "d", " ", "p", "a", "g", "e", " ", "c", "o", "n", "t", "e", "n", "t", " ", "(", "l", "i", "k", "e", "l", "y", " ", "a", " ", "4", "0", "4", " ", "p", "a", "g", "e", ")">>

Html(text, rows) == [k |-> "str", text |-> text, rows |-> rows]
NoData == [k |-> "undefined", text |-> <<>>, rows |-> <<>>]
JsonObject == [k |-> "object", text |-> <<>>, rows |-> <<>>]
JsonZero == [k |-> "num", text |-> <<>>, rows |-> <<>>]

\* !res.data: undefined, 0 and the empty string are falsy
isFalsyData(data) ==
    \/ data.k \in {"undefined", "num"}
    \/ data.k = "str" /\ data.text = <<>> /\ data.rows = <<>>

\* res.data.includes(sub): in the text of the page or in a cell of a table
dataIncludes(data, sub) ==
    \/ includes(data.text, sub)
    \/ \E r \in 1..Len(data.rows) : \E c \in 1..Len(data.rows[r]) :
          includes(data.rows[r][c], sub)

\* faulty variant: a status of 400 and above is let through
isErrorPageAnyStatus(res) ==
    \/ isFalsyData(res.data)
    \/ res.data.k # "str"
    \/ dataIncludes(res.data, PAGE_NOT_FOUND)

isErrorPage(res) ==
    \/ isFalsyData(res.data)
    \/ res.status >= 400
    \/ res.data.k # "str"
    \/ dataIncludes(res.data, PAGE_NOT_FOUND)

(***************************************************************************)
(* Thrown values and the error object of getStockFinancialsV2.             *)
(***************************************************************************)
ErrorV(message) == [k |-> "Error", m |-> 0, e |-> 0, s |-> message]
TrueV == [k |-> "true", m |-> 0, e |-> 0, s |-> <<>>]
NoError == UndefV

kError == <<"e", "r", "r", "o", "r">>
kMessage == <<"m", "e", "s", "s", "a", "g", "e">>
kStack == <<"s", "t", "a", "c", "k">>

\* String(err)
StringOf(err) ==
    IF err.k = "Error"
    THEN (IF err.s = <<>> THEN <<"E", "r", "r", "o", "r">> ELSE <<"E", "r", "r", "o", "r", ":", " ">> \o err.s)
    ELSE IF err.k = "null" THEN <<"n", "u", "l", "l">>
    ELSE err.s

\* err?.message || String(err)
messageOf(err) ==
    IF err.k = "Error" /\ err.s # <<>> THEN err.s ELSE StringOf(err)

\* err?.stack: the stack of an Error begins with String(err); a thrown string
\* has none
stackOf(err) == IF err.k = "Error" THEN StrV(StringOf(err)) ELSE UndefV

\* faulty variant: the message alone, without the error flag
errorObjectMessageOnly(err) ==
    << [key |-> kMessage, val |-> StrV(messageOf(err))] >>

\* { error: true, message: ..., stack: ... }
errorObject(err) ==
    << [key |-> kError, val |-> TrueV],
       [key |-> kMessage, val |-> StrV(messageOf(err))],
       [key |-> kStack, val |-> stackOf(err)] >>

(***************************************************************************)
(* Explored inputs.                                                        *)
(***************************************************************************)
(* getStockOverview (dist/scraper.js).  The overview table is the list of  *)
(* its rows, each the texts of its td cells.  The fields read from the     *)
(* table are modelled; price, performance1Y and the numbers cut out of the *)
(* price target and the 52-week range by regular expressions are not.      *)
(***************************************************************************)
\* the rows holding a td whose trimmed text is the label; the trimmed text of
\* the last td of the last of them, "" when there is none
findTableText(rows, label) ==
    LET hits == {r \in 1..Len(rows) :
                    \E c \in 1..Len(rows[r]) : trim(rows[r][c]) = label}
    IN IF hits = {} THEN <<>>
       ELSE LET r == CHOOSE x \in hits : \A y \in hits : y <= x
            IN trim(rows[r][Len(rows[r])])

\* the first label of the list with a non-empty text
RECURSIVE getField(_, _)
getField(rows, labels) ==
    IF labels = <<>> THEN <<>>
    ELSE IF findTableText(rows, labels[1]) # <<>> THEN findTableText(rows, labels[1])
    ELSE getField(rows, Tail(labels))

\* v || 0, v || undefined and v || "" on a number, undefined or a string
isFalsy(v) ==
    \/ v.k \in {"undefined", "null", "NaN"}
    \/ v.k = "num" /\ v.m = 0
    \/ v.k = "str" /\ v.s = <<>>

orZero(v) == IF isFalsy(v) THEN MkNum(0, 0) ELSE v

orUndefined(v) == IF isFalsy(v) THEN UndefV ELSE v

overviewOf(rows) ==
    [marketCap |-> StrV(findTableText(rows, <<"M", "a", "r", "k", "e", "t", " ", "C", "a", "p">>)),
     revenue |-> StrV(findTableText(rows, <<"R", "e", "v", "e", "n", "u", "e", " ", "(", "t", "t", "m", ")">>)),
     netIncome |-> StrV(findTableText(rows, <<"N", "e", "t", " ", "I", "n", "c", "o", "m", "e", " ", "(", "t", "t", "m", ")">>)),
     eps |-> orZero(parseNumber(findTableText(rows, <<"E", "P", "S", " ", "(", "t", "t", "m", ")">>))),
     peRatio |-> orZero(parseNumber(findTableText(rows, <<"P", "E", " ", "R", "a", "t", "i", "o">>))),
     dividend |-> StrV(findTableText(rows, <<"D", "i", "v", "i", "d", "e", "n", "d">>)),
     exDividendDate |-> StrV(findTableText(rows, <<"E", "x", "-", "D", "i", "v", "i", "d", "e", "n", "d", " ", "D", "a", "t", "e">>)),
     earningsDate |-> StrV(findTableText(rows, <<"E", "a", "r", "n", "i", "n", "g", "s", " ", "D", "a", "t", "e">>)),
     sharesOutstanding |->
        orUndefined(StrV(getField(rows, <<<<"S", "h", "a", "r", "e", "s", " ", "O", "u", "t">>, <<"S", "h", "a", "r", "e", "s", " ", "O", "u", "t", "s", "t", "a", "n", "d", "i", "n", "g">>>>))),
     forwardPERatio |->
        orUndefined(parseNumber(getField(rows, <<<<"F", "o", "r", "w", "a", "r", "d", " ", "P", "E">>, <<"F", "o", "r", "w", "a", "r", "d", " ", "P", "/", "E">>>>))),
     volume |-> parseNumber(RemoveAll(getField(rows, <<<<"V", "o", "l", "u", "m", "e">>>>), {","})),
     open |-> orUndefined(parseNumber(getField(rows, <<<<"O", "p", "e", "n">>>>))),
     previousClose |-> orUndefined(parseNumber(getField(rows, <<<<"P", "r", "e", "v", "i", "o", "u", "s", " ", "C", "l", "o", "s", "e">>>>))),
     daysRange |-> orUndefined(StrV(getField(rows, <<<<"D", "a", "y", "'", "s", " ", "R", "a", "n", "g", "e">>>>))),
     beta |-> orUndefined(parseNumber(getField(rows, <<<<"B", "e", "t", "a">>>>))),
     analysts |-> orUndefined(StrV(getField(rows, <<<<"A", "n", "a", "l", "y", "s", "t", "s">>>>))),
     priceTarget |-> StrV(getField(rows, <<<<"P", "r", "i", "c", "e", " ", "T", "a", "r", "g", "e", "t">>>>)),
     range52Week |-> StrV(getField(rows, <<<<"5", "2", "-", "W", "e", "e", "k", " ", "R", "a", "n", "g", "e">>>>))]

\* the URL of the overview page: market and symbol as in getStockStatistics
urlOverview(rawSymbol) ==
    LET si == suffixIndex(rawSymbol)
        market == IF si = 0 THEN US ELSE marketMap[si].market
        cut == IF si = 0 THEN rawSymbol
               ELSE SubSeq(rawSymbol, 1, Len(rawSymbol) - Len(marketMap[si].suffix))
        symbol == IF startsWith(toUpperCase(cut), BKK_PREFIX)
                  THEN SubSeq(cut, Len(BKK_PREFIX) + 1, Len(cut)) ELSE cut
    IN IF market = US
       THEN URL_STOCKS \o toLowerCase(symbol) \o <<"/">>
       ELSE URL_QUOTE \o market \o <<"/">> \o symbol \o <<"/">>

(***************************************************************************)
RECURSIVE SeqsOfLen(_, _)
SeqsOfLen(S, n) ==
    IF n = 0 THEN {<<>>} ELSE {<<c>> \o t : c \in S, t \in SeqsOfLen(S, n - 1)}

SeqsUpTo(S, lo, hi) == UNION {SeqsOfLen(S, n) : n \in lo..hi}

RECURSIVE Concat(_)
Concat(parts) == IF parts = <<>> THEN <<>> ELSE parts[1] \o Concat(Tail(parts))

PadSet == SeqsUpTo({" "}, 0, MaxPad)

SentinelBases == {<<"n", "/", "a">>, <<"N", "/", "A">>, <<"N", "/", "a">>, <<"-">>, <<"-", "-">>, <<>>}

SentinelTokens == {l \o b \o r : l \in PadSet, b \in SentinelBases, r \in PadSet}

TokenDigits == {"0", "1", "6"}

IntParts == SeqsUpTo(TokenDigits, 1, MaxIntDigits)

FracParts == {<<>>} \cup {<<".">> \o d : d \in SeqsUpTo(TokenDigits, 1, MaxFracDigits)}

CommaInts == {<<"1", ",", "2", "3", "4">>, <<"1", ",", "0">>, <<"1", "2", ",", "3", "4", "5", ",", "6", "7", "8">>}

UnitSuffixes == {<<>>, <<"K">>, <<"M">>, <<"B">>, <<"T">>}

NumTokens ==
    {pre \o sg \o ip \o fp \o pct \o su :
        pre \in {<<>>, <<"$">>}, sg \in {<<>>, <<"-">>},
        ip \in IntParts, fp \in FracParts,
        pct \in {<<>>, <<"%">>}, su \in UnitSuffixes}

PaddedTokens ==
    {l \o t \o r : l \in PadSet, r \in PadSet,
        t \in {<<"1", "6">>, <<"-", "1", ".", "6">>, <<"6", "%">>, <<"1", ".", "6", "K">>, <<"1", "6", "M">>, <<"$", "6">>}}

CommaTokens ==
    {pre \o sg \o ip \o fp \o su :
        pre \in {<<>>, <<"$">>}, sg \in {<<>>, <<"-">>},
        ip \in CommaInts, fp \in {<<>>, <<".", "5", "6">>}, su \in UnitSuffixes}

ExampleTokens ==
    {<<"3", ".", "3", "1", "T">>, <<"8", "6", ".", "1", "6", "B">>, <<"2", "3", "6", ".", "5", "8", "B">>, <<"1", ",", "2", "3", "4", ".", "5", "6">>, <<"$", "1", ",", "2", "3", "4", ".", "5", "6">>, <<"6", ".", "5", "4", "%">>,
     <<"(", "4", ".", "0", "2", "%", ")">>, <<"a", "b", "c">>, <<".">>, <<"B">>, <<"1", "B", "2", "B">>, <<"-", "-", "5">>, <<"5", ".">>, <<".", "5">>,
     <<"1", ".", "2", ".", "3">>, <<"%">>, <<"$">>, <<",">>, <<"M", "a", "y", " ", "1", "5", ",", " ", "2", "0", "2", "5">>, <<"+", "3", "2", ".", "1", "1", "%">>}

Tokens ==
    SentinelTokens \cup NumTokens \cup PaddedTokens \cup CommaTokens \cup ExampleTokens

\* cell texts of the overview table: numbers with and without sign, fraction,
\* percent sign and unit letter, and texts with white space or "$" inside
OverviewNumbers ==
    {sg \o ip \o fp \o pct \o su :
        sg \in {<<>>, <<"-">>, <<"+">>}, ip \in {<<"0">>, <<"1", "6">>, <<"2", "5", "3">>},
        fp \in {<<>>, <<".", "5">>, <<".", "0", "9">>}, pct \in {<<>>, <<"%">>},
        su \in UnitSuffixes}

InnerSpaceTokens ==
    {<<"1", " ", "2">>, <<"1", " ", "2", "3", "4", ".", "5">>, <<"-", " ", "5">>, <<"1", "$", "2">>, <<"5", "$">>, <<"5", " ", "B">>, <<"1", " ", "6", " ", "M">>, <<"2", "5", "3", ".", "9", "5", " ", "-", " ", "2", "5", "9", ".", "2", "4">>}

OverviewTokens ==
    SentinelTokens \cup OverviewNumbers \cup PaddedTokens \cup CommaTokens
       \cup ExampleTokens \cup InnerSpaceTokens

\* A statement page: the unit caption, the th texts of the two header rows and
\* the td texts of each body row.
FirstTh == <<"F", "i", "s", "c", "a", "l", " ", "Y", "e", "a", "r">>
LastTh == <<"2", "0", "1", "5", " ", "-", " ", "2", "0", "1", "9">>
LastTd == <<"U", "p", "g", "r", "a", "d", "e">>

Captions ==
    {<<>>, <<"M", "i", "l", "l", "i", "o", "n", "s", " ", "U", "S", "D">>, <<"B", "i", "l", "l", "i", "o", "n", "s">>, <<"T", "h", "o", "u", "s", "a", "n", "d", "s", " ", "T", "H", "B">>, <<"T", "r", "i", "l", "l", "i", "o", "n", "s">>,
     <<"D", "a", "t", "a", " ", "S", "o", "u", "r", "c", "e", "M", "i", "l", "D", "o", "w", "n", "l", "o", "a", "d", "l", "i", "o", "n", "s">>}

RowLabels ==
    {<<"R", "e", "v", "e", "n", "u", "e">>, <<"E", "P", "S", " ", "(", "B", "a", "s", "i", "c", ")">>, <<"R", "O", "E", " ", "%">>, <<"S", "h", "a", "r", "e", "s", " ", "C", "h", "a", "n", "g", "e", " ", "(", "Y", "o", "Y", ")">>,
     <<"T", "a", "x", " ", "R", "a", "t", "e">>,
     <<"N", "e", "t", " ", "I", "n", "c", "o", "m", "e">>,
     <<"F", "o", "r", "w", "a", "r", "d", " ", "P", "/", "E">>}

CellNumbers ==
    {pre \o sg \o ip \o fp \o pct :
        pre \in {<<>>, <<"$">>}, sg \in {<<>>, <<"-">>},
        ip \in {<<"0">>, <<"6">>, <<"1", ",", "2", "3", "4">>}, fp \in {<<>>, <<".", "5">>, <<".", "5", "6", "7">>, <<".", "0", "0", "4">>},
        pct \in {<<>>, <<"%">>}}

CellTexts == SentinelTokens \cup CellNumbers \cup {<<"a", "b", "c">>, <<"6", ".", "5", " ", "%">>, <<"$">>, <<"1", ".", "6", "B">>}

\* the second header row: a th per column, the odd ones with a hidden span
Thead2Of(thead) ==
    [i \in 1..Len(thead) |->
        [hidden |-> IF i % 2 = 1 THEN <<"S", "e", "p", " ", "3", "0">> ELSE <<>>, text |-> <<" ", "S", "e", "p", " ", "3", "0", ",", " ", "2", "0", "2", "4", " ">>]]

MkPage(unitRaw, thead, tbody) ==
    [unitRaw |-> unitRaw, thead |-> thead, thead2 |-> Thead2Of(thead), tbody |-> tbody]

EmptyPage == MkPage(<<>>, <<>>, <<>>)

SamplePage ==
    MkPage(<<"M", "i", "l", "l", "i", "o", "n", "s", " ", "U", "S", "D">>,
           <<FirstTh, <<"F", "Y", " ", "2", "0", "2", "4">>, <<"F", "Y", " ", "2", "0", "2", "3">>, LastTh>>,
           << <<<<"R", "e", "v", "e", "n", "u", "e">>, <<"1", ",", "0", "0", "0">>, <<"9", "0", "0">>, LastTd>>,
              <<<<"E", "P", "S", " ", "(", "B", "a", "s", "i", "c", ")">>, <<"1", ".", "6", "0">>, <<"1", ".", "5">>, LastTd>> >>)

\* one period, one row, one value cell: every caption, row label and cell text
CellPages ==
    {MkPage(u, <<FirstTh, <<"F", "Y", " ", "2", "0", "2", "4">>, LastTh>>, << <<k, c, LastTd>> >>) :
        u \in Captions, k \in RowLabels, c \in CellTexts}

\* one period label built from parts, one row
LabelParts ==
    {<<"Q", "2">>, <<"Q", "5">>, <<"F", "Y">>, <<" ">>, <<"2", "0", "2", "4">>, <<"1", "9">>, <<"x">>, <<"F", "Y", " ", "2", "0", "2", "4">>, <<"Q", "3", " ", "2", "0", "2", "3">>}

MaxParts == 3

PeriodLabels == {Concat(ps) : ps \in SeqsUpTo(LabelParts, 0, MaxParts)}

LabelPages ==
    {MkPage(<<>>, <<FirstTh, l, LastTh>>, << <<<<"R", "e", "v", "e", "n", "u", "e">>, <<"1">>, LastTd>> >>) :
        l \in PeriodLabels}

\* tables of every shape: 0..MaxLabels period columns, 0..MaxRows rows of
\* 0..MaxCells value cells, rows with no cell or with the label cell alone
ShapeLabels == {<<"F", "Y", " ", "2", "0", "2", "4">>, <<"Q", "2", " ", "2", "0", "2", "4">>}

ShapeKeys == {<<"R", "e", "v", "e", "n", "u", "e">>, <<"y", "e", "a", "r">>}

ShapeTheads ==
    {<<>>, <<FirstTh>>}
    \cup {<<FirstTh>> \o ls \o <<LastTh>> : ls \in SeqsUpTo(ShapeLabels, 0, MaxLabels)}

ValueCells(n) == [i \in 1..n |-> <<"1">> \o [j \in 1..i |-> "0"]]

ShapeRows ==
    {<<>>, <<<<"R", "e", "v", "e", "n", "u", "e">>>>, <<<<" ", " ">>, <<"5">>, LastTd>>}
    \cup {<<k>> \o ValueCells(n) \o <<LastTd>> : k \in ShapeKeys, n \in 0..MaxCells}

ShapePages ==
    {MkPage(<<>>, th, rows) : th \in ShapeTheads, rows \in SeqsUpTo(ShapeRows, 0, MaxRows)}

Symbols ==
    {<<"A", "A", "P", "L">>, <<"a", "a", "p", "l">>, <<"B", "R", "K", ".", "B">>, <<"P", "T", "T", ".", "B", "K">>, <<"p", "t", "t", ".", "b", "k">>, <<"P", "t", "t", ".", "B", "k">>, <<"A", "P", ".", "B", "K">>,
     <<"B", "K", "K", ":", "A", "P">>, <<"b", "k", "k", ":", "a", "p">>, <<"B", "K", "K", ":", "P", "T", "T">>, <<"B", "K", "K", ":">>, <<"B", "K", "K", ":", "P", "T", "T", ".", "B", "K">>, <<".", "B", "K">>,
     <<"V", "C", "B", ".", "V", "N">>, <<"v", "c", "b", ".", "v", "n">>, <<"T", "C", "S", ".", "I", "N">>, <<"7", "2", "0", "3", ".", "J", "P">>, <<"A", "M", "X", "L", ".", "M", "X">>, <<"B", "B", "C", "A", ".", "I", "D">>,
     <<"X", ".", "V", "N", ".", "V", "N">>, <<"A", ".", "B", "K", ".", "V", "N">>, <<"A", "P", ".", "B", "K", "K">>}

StatementTypes == {"Income", "Balance Sheet", "Cash Flow", "Ratios"}

PeriodTypes == {"Annual", "Quarterly", "TTM"}

MkInput(rawSymbol, statementType, periodType, pg) ==
    [rawSymbol |-> rawSymbol, statementType |-> statementType,
     periodType |-> periodType, page |-> pg]

UrlInputs ==
    {MkInput(sy, st, pt, SamplePage) :
        sy \in Symbols, st \in StatementTypes, pt \in PeriodTypes}

\* one period, one or two rows: labels with punctuation, white space of every
\* kind and percent signs, pairs of labels that normalise to the same key
KeyLabels ==
    {<<" ", "D", "e", "b", "t", " ", "/", " ", "E", "q", "u", "i", "t", "y", " ", "(", "%", ")", " ">>, <<"R", "O", "E", " ", "%">>, <<"R", "O", "E", "(", "%", ")">>, <<"%", "%">>, <<"(", " ", ")">>,
     <<"N", "e", "t", "\t", "D", "e", "b", "t", "\n">>, <<"f", "i", "s", "c", "a", "l", "/", "Y", "e", "a", "r">>, <<"P", "/", "E", " ", "%", " ", "(", "x", ")", " ", "%">>}

KeyPages ==
    {MkPage(<<>>, <<FirstTh, <<"F", "Y", " ", "2", "0", "2", "4">>, LastTh>>,
            [i \in 1..Len(ks) |-> <<ks[i], <<"1", ".", "5">>, LastTd>>]) :
        ks \in SeqsUpTo(KeyLabels, 1, 2)}

\* two or three rows whose labels give one output key, each row with its own
\* cell text
CollisionLabels == {<<"R", "O", "E", " ", "%">>, <<"R", "O", "E", "(", "%", ")">>, <<"1", "0">>, <<"1", "/", "0">>}

CollisionCells == <<<<"1", ".", "5">>, <<"2", ".", "5">>, <<"3", ".", "5">>>>

CollisionPages ==
    {MkPage(<<>>, <<FirstTh, <<"F", "Y", " ", "2", "0", "2", "4">>, LastTh>>,
            [i \in 1..Len(ks) |-> <<ks[i], CollisionCells[i], LastTd>>]) :
        ks \in SeqsUpTo(CollisionLabels, 2, 3)}

\* a table of three rows and two periods under every caption: captions naming
\* two units, a lower-case unit, the caption with its menu texts around it
UnitCaptions ==
    Captions
    \cup {<<"M", "i", "l", "l", "i", "o", "n", "s", " ", "o", "f", " ", "B", "i", "l", "l", "i", "o", "n", "s">>, <<"T", "h", "o", "u", "s", "a", "n", "d", " ", "T", "r", "i", "l", "l", "i", "o", "n">>, <<"m", "i", "l", "l", "i", "o", "n", "s", " ", "U", "S", "D">>,
          <<"T", "r", "i", "l", "l", "i", "o", "n", "s", " ", "o", "f", " ", "T", "h", "o", "u", "s", "a", "n", "d", "s">>,
          <<"D", "a", "t", "a", " ", "S", "o", "u", "r", "c", "e", "\n", " ", "B", "i", "l", "l", "i", "o", "n", "s", " ", "U", "S", "D", "\n", "D", "o", "w", "n", "l", "o", "a", "d">>}

UnitPages ==
    {MkPage(u, <<FirstTh, <<"F", "Y", " ", "2", "0", "2", "4">>, <<"F", "Y", " ", "2", "0", "2", "3">>, LastTh>>,
            << <<<<"R", "e", "v", "e", "n", "u", "e">>, <<"1", ",", "0", "0", "0">>, <<"-", "2", ".", "5">>, LastTd>>,
               <<<<"N", "e", "t", " ", "I", "n", "c", "o", "m", "e">>, <<"$", "3">>, <<"n", "/", "a">>, LastTd>>,
               <<<<"R", "O", "E", " ", "%">>, <<"1", "2", ".", "3", "4", "5">>, <<"7">>, LastTd>> >>) :
        u \in UnitCaptions}

\* one row under "Millions": labels holding a keyword inside another word, in
\* another letter case, with and without the space the two parsers disagree on
ClassLabels ==
    {<<"E", "U", "R", "O", "P", "E", " ", "S", "a", "l", "e", "s">>, <<"G", "r", "o", "s", "s", " ", "m", "a", "r", "g", "i", "n">>, <<"G", "r", "o", "s", "s", " ", "M", "a", "r", "g", "i", "n">>, <<"B", "o", "o", "k", " ", "V", "a", "l", "u", "e", " ", "P", "e", "r", " ", "S", "h", "a", "r", "e">>,
     <<"B", "o", "o", "k", "V", "a", "l", "u", "e", "P", "e", "r", "S", "h", "a", "r", "e">>, <<"R", "O", "I", "C">>, <<"R", "e", "t", "u", "r", "n", " ", "o", "n", " ", "C", "a", "p", "i", "t", "a", "l">>, <<"e", "p", "s">>, <<"P", "a", "y", "o", "u", "t">>,
     <<"F", "o", "r", "w", "a", "r", "d", " ", "P", "E">>}

ClassCells == {<<"2", ".", "5">>, <<"1", ",", "2", "3", "4", ".", "5", "6", "7">>, <<"-", "0", ".", "0", "0", "4">>}

ClassPages ==
    {MkPage(<<"M", "i", "l", "l", "i", "o", "n", "s", " ", "U", "S", "D">>, <<FirstTh, <<"F", "Y", " ", "2", "0", "2", "4">>, LastTh>>, << <<k, c, LastTd>> >>) :
        k \in ClassLabels, c \in ClassCells}

InputsV2 ==
    UrlInputs
    \cup {MkInput(<<"A", "A", "P", "L">>, "Income", "Annual", pg) :
             pg \in CellPages \cup LabelPages \cup ShapePages \cup KeyPages
                    \cup UnitPages \cup ClassPages \cup CollisionPages}

InputsV1 ==
    UrlInputs
    \cup {MkInput(<<"A", "A", "P", "L">>, "Income", "Annual", pg) :
             pg \in CellPages \cup ShapePages \cup UnitPages \cup ClassPages}

\* Overview pages: no table, one row for every label and cell text, and pairs
\* of rows with both spellings of a label or the same label twice
OverviewLabels ==
    {<<"E", "P", "S", " ", "(", "t", "t", "m", ")">>, <<"P", "E", " ", "R", "a", "t", "i", "o">>, <<"F", "o", "r", "w", "a", "r", "d", " ", "P", "E">>, <<"F", "o", "r", "w", "a", "r", "d", " ", "P", "/", "E">>, <<"V", "o", "l", "u", "m", "e">>, <<"O", "p", "e", "n">>,
     <<"P", "r", "e", "v", "i", "o", "u", "s", " ", "C", "l", "o", "s", "e">>, <<"B", "e", "t", "a">>, <<"M", "a", "r", "k", "e", "t", " ", "C", "a", "p">>}

OverviewCells ==
    {<<>>, <<"n", "/", "a">>, <<"-">>, <<"0">>, <<"0", ".", "0", "0">>, <<"1", ".", "0", "9">>, <<"-", "0", ".", "5">>, <<"3", "3", ".", "3", "9">>, <<"4", "9", ",", "1", "4", "9">>,
     <<"1", ".", "5", "B">>, <<"a", "b", "c">>, <<"$", "5", ".", "2">>, <<" ", "7", " ">>}

OverviewTables ==
    {<<>>}
    \cup {<< <<k, c>> >> : k \in OverviewLabels, c \in OverviewCells}
    \cup {<< <<<<"F", "o", "r", "w", "a", "r", "d", " ", "P", "E">>, a>>, <<<<"F", "o", "r", "w", "a", "r", "d", " ", "P", "/", "E">>, b>> >> :
             a \in {<<>>, <<"n", "/", "a">>, <<"3", "0", ".", "1">>}, b \in {<<>>, <<"3", "3", ".", "3", "9">>}}
    \cup {<< <<<<"B", "e", "t", "a">>, <<"1", ".", "0", "9">>>>, <<k, <<"0", ".", "9">>>> >> : k \in {<<"B", "e", "t", "a">>, <<"O", "p", "e", "n">>}}

InputsOverview ==
    {MkInput(sy, "Income", "Annual", MkPage(<<>>, <<>>, rows)) :
        sy \in {<<"A", "A", "P", "L">>, <<"P", "T", "T", ".", "B", "K">>}, rows \in OverviewTables}

\* Statistics pages: the HTTP response and, in an HTML body, the rows of the
\* statistics tables as the texts of their td cells.
Statuses == {200, 204, 399, 400, 404, 500}

PageTitle == <<"A", "p", "p", "l", "e", " ", "I", "n", "c", ".", " ", "(", "A", "A", "P", "L", ")", " ", "S", "t", "a", "t", "i", "s", "t", "i", "c", "s">>

StatLabels ==
    {<<"M", "a", "r", "k", "e", "t", " ", "C", "a", "p">>, <<" ", "M", "a", "r", "k", "e", "t", " ", "C", "a", "p", " ">>, <<"m", "a", "r", "k", "e", "t", " ", "c", "a", "p">>, <<"M", "a", "r", "k", "e", "t", " ", "C", "a", "p", ":">>, <<"M", "a", "r", "k", "e", "t", "C", "a", "p">>,
     <<"E", "a", "r", "n", "i", "n", "g", "s", " ", "D", "a", "t", "e">>, <<"E", "x", "-", "D", "i", "v", "i", "d", "e", "n", "d", " ", "D", "a", "t", "e">>, <<"E", "x", "-", "d", "i", "v", "i", "d", "e", "n", "d", " ", "D", "a", "t", "e">>, <<"P", "E", " ", "R", "a", "t", "i", "o">>,
     <<"P", "/", "T", "B", "V", " ", "R", "a", "t", "i", "o">>, <<"R", "e", "t", "u", "r", "n", " ", "o", "n", " ", "E", "q", "u", "i", "t", "y", " ", "(", "R", "O", "E", ")">>, <<"R", "e", "t", "u", "r", "n", " ", "o", "n", " ", "E", "q", "u", "i", "t", "y">>, <<"U", "n", "k", "n", "o", "w", "n">>, <<>>}

StatValues ==
    {<<"3", ".", "3", "1", "T">>, <<"8", "6", ".", "1", "6", "B">>, <<" ", "7", " ">>, <<"1", "2", ".", "5", "%">>, <<"1", ",", "2", "3", "4">>, <<"n", "/", "a">>, <<"-">>, <<>>,
     <<"M", "a", "y", " ", "1", ",", " ", "2", "0", "2", "5">>, <<"P", "a", "g", "e", " ", "N", "o", "t", " ", "F", "o", "u", "n", "d">>, <<"0">>}

SampleRows ==
    << <<<<"M", "a", "r", "k", "e", "t", " ", "C", "a", "p">>, <<"8", "6", ".", "1", "6", "B">>>>,
       <<<<"E", "a", "r", "n", "i", "n", "g", "s", " ", "D", "a", "t", "e">>, <<"M", "a", "y", " ", "1", ",", " ", "2", "0", "2", "5">>>>,
       <<<<"U", "n", "k", "n", "o", "w", "n">>, <<"5">>>>,
       <<<<"P", "E", " ", "R", "a", "t", "i", "o">>, <<"3", "1", ".", "5">>>> >>

\* one row: every label of the explored set with every cell text, every label
\* of the switch, rows of no, one and three cells
OneRowTables ==
    {<< <<l, v>> >> : l \in StatLabels, v \in StatValues}
    \cup {<< <<statisticsCases[i].label, <<"1", ".", "5">>>> >> : i \in 1..Len(statisticsCases)}
    \cup {<< <<>> >>, << <<<<"M", "a", "r", "k", "e", "t", " ", "C", "a", "p">>>> >>, << <<<<"E", "a", "r", "n", "i", "n", "g", "s", " ", "D", "a", "t", "e">>>> >>,
          << <<<<"P", "E", " ", "R", "a", "t", "i", "o">>, <<"3", "1", ".", "5">>, <<"2", "8", ".", "1">>>> >>}

\* several rows: a label met twice, matched rows around unmatched ones
FewRowTables ==
    {<<>>, SampleRows}
    \cup {<< <<a, <<"1">>>>, <<b, <<"2">>>> >> :
             a \in {<<"M", "a", "r", "k", "e", "t", " ", "C", "a", "p">>, <<"E", "a", "r", "n", "i", "n", "g", "s", " ", "D", "a", "t", "e">>, <<"U", "n", "k", "n", "o", "w", "n">>},
             b \in {<<"M", "a", "r", "k", "e", "t", " ", "C", "a", "p">>, <<"E", "a", "r", "n", "i", "n", "g", "s", " ", "D", "a", "t", "e">>, <<"P", "E", " ", "R", "a", "t", "i", "o">>, <<"m", "a", "r", "k", "e", "t", " ", "c", "a", "p">>}}

\* two or three rows for one field: a number, a sentinel and another number in
\* every order, alone or after an unrelated row
ResetValues == {<<"8", "6", ".", "1", "6", "B">>, <<"n", "/", "a">>, <<"5">>}

ResetTables ==
    {[i \in 1..Len(vs) |-> <<<<"M", "a", "r", "k", "e", "t", " ", "C", "a", "p">>, vs[i]>>] : vs \in SeqsUpTo(ResetValues, 2, 3)}
    \cup {<< <<<<"P", "E", " ", "R", "a", "t", "i", "o">>, <<"3", "1", ".", "5">>>> >> \o [i \in 1..Len(vs) |-> <<<<"M", "a", "r", "k", "e", "t", " ", "C", "a", "p">>, vs[i]>>] :
             vs \in SeqsUpTo(ResetValues, 2, 2)}

MkResponse(status, data) == [status |-> status, data |-> data]

ResponseBodies ==
    {Html(PageTitle, SampleRows), Html(<<>>, <<>>), Html(PageTitle, <<>>),
     Html(<<"4", "0", "4", " ", "-", " ", "P", "a", "g", "e", " ", "N", "o", "t", " ", "F", "o", "u", "n", "d">>, <<>>), Html(<<"p", "a", "g", "e", " ", "n", "o", "t", " ", "f", "o", "u", "n", "d">>, SampleRows),
     Html(PageTitle, << <<<<"P", "a", "g", "e", " ", "N", "o", "t", " ", "F", "o", "u", "n", "d">>, <<"1">>>> >>),
     NoData, JsonObject, JsonZero}

Responses == {MkResponse(st, d) : st \in Statuses, d \in ResponseBodies}

TableResponses ==
    {MkResponse(200, Html(PageTitle, rows)) : rows \in OneRowTables \cup FewRowTables \cup ResetTables}

MkStatInput(rawSymbol, res) == [rawSymbol |-> rawSymbol, response |-> res]

InputsStatistics ==
    {MkStatInput(sy, MkResponse(200, Html(PageTitle, SampleRows))) : sy \in Symbols}
    \cup {MkStatInput(<<"A", "A", "P", "L">>, res) : res \in Responses \cup TableResponses}

\* what a failed request or a failed parsing step throws
Thrown ==
    {ErrorV(<<"N", "e", "t", "w", "o", "r", "k", " ", "E", "r", "r", "o", "r">>), ErrorV(<<"R", "e", "q", "u", "e", "s", "t", " ", "f", "a", "i", "l", "e", "d", " ", "w", "i", "t", "h", " ", "s", "t", "a", "t", "u", "s", " ", "c", "o", "d", "e", " ", "4", "0", "4">>),
     ErrorV(<<>>), StrV(<<"t", "i", "m", "e", "o", "u", "t">>), NullV}

(***************************************************************************)
(* The state machine: one call at a time, from its arguments to its        *)
(* settled result.                                                         *)
(***************************************************************************)
NoInput == MkInput(<<>>, "Income", "Annual", EmptyPage)
NoResponse == MkResponse(0, NoData)
NoStatistics == <<>>

Idle ==
    /\ pc = "idle"
    /\ op = "none"
    /\ value = <<>>
    /\ ret = UndefV
    /\ input = NoInput
    /\ url = <<>>
    /\ unit = <<>>
    /\ fiscalYear = <<>>
    /\ periodEnding = <<>>
    /\ financialsMap = <<>>
    /\ periods = <<>>
    /\ result = <<>>
    /\ outcome = "none"
    /\ response = NoResponse
    /\ fetched = NoData
    /\ statistics = NoStatistics
    /\ error = NoError

\* the module as loaded: DEBUG_SCRAPER = !!process.env.DEBUG_SCRAPER
LoadedModule(debug) == [DEBUG_SCRAPER |-> debug, marketMap |-> marketMap]

\* what the network delivers to a call: a response (fetchHtmlSafe), a page
\* (axios.get in getStockFinancialsV2) or a failure
Served(kind, res, pg, err) ==
    [kind |-> kind, response |-> res, page |-> pg, thrown |-> err]

NoServed == Served("none", NoResponse, EmptyPage, NoError)

\* the local variables of a call and how it settled
NoCall ==
    [fn |-> "none", pc |-> "idle", arg |-> <<>>, url |-> <<>>, served |-> NoServed,
     html |-> NoData, logged |-> FALSE, settled |-> "none", val |-> UndefV]

NumCalls == 2

Slots == 1..NumCalls

NoCalls == [slot \in Slots |-> NoCall]

\* no call is being followed
NotRunning ==
    [fn |-> "none", pc |-> "idle", arg |-> <<>>, url |-> <<>>, requestsBefore |-> 0,
     browser |-> 0, settled |-> "none"]

\* nothing requested and nothing launched yet
NoEffects ==
    /\ requests = <<>>
    /\ browsers = <<>>
    /\ running = NotRunning

\* one call at a time, logging off
Init ==
    /\ Idle
    /\ calls = NoCalls
    /\ moduleState = LoadedModule(FALSE)
    /\ NoEffects

\* parseValue(value) called on a statistics cell text
ParseValue ==
    /\ pc = "idle"
    /\ UNCHANGED <<calls, moduleState, effectVars>>
    /\ \E t \in Tokens :
          /\ value' = t
          /\ ret' = parseValue(t)
    /\ pc' = "done"
    /\ op' = "parseValue"
    /\ outcome' = "returned"
    /\ UNCHANGED <<input, url, unit, fiscalYear, periodEnding, financialsMap,
                   periods, result, response, fetched, statistics, error>>

\* parseNumber(text) called on a cell text of the overview table
ParseNumber ==
    /\ pc = "idle"
    /\ UNCHANGED <<calls, moduleState, effectVars>>
    /\ \E t \in OverviewTokens :
          /\ value' = t
          /\ ret' = parseNumber(t)
    /\ pc' = "done"
    /\ op' = "parseNumber"
    /\ outcome' = "returned"
    /\ UNCHANGED <<input, url, unit, fiscalYear, periodEnding, financialsMap,
                   periods, result, response, fetched, statistics, error>>

\* getStockFinancialsV2(rawSymbol, statementType, periodType): the whole body
\* is inside try/catch.  Either a step throws (the request fails, the page
\* cannot be loaded) and the promise resolves to the error object, or the
\* page is parsed and reshaped into one record per period.
GetStockFinancialsV2 ==
    /\ pc = "idle"
    /\ UNCHANGED <<calls, moduleState, effectVars>>
    /\ \E inp \in InputsV2, net \in {"ok", "fail"} :
          /\ url' = urlV2(inp.rawSymbol, inp.statementType, inp.periodType)
          /\ IF net = "ok"
             THEN LET multiplier == multiplierOf(unitTextOf(inp.page.unitRaw))
                      labels == fiscalYearV2(inp.page.thead)
                      fmap == financialsMapV2(inp.page.tbody, multiplier, <<>>)
                  IN /\ input' = inp
                     /\ unit' = unitTextOf(inp.page.unitRaw)
                     /\ fiscalYear' = labels
                     /\ financialsMap' = fmap
                     /\ periods' = [i \in 1..Len(labels) |-> periodOf(labels[i])]
                     /\ result' = reshapeV2(labels, fmap)
                     /\ outcome' = "records"
             ELSE \E err \in Thrown :
                     /\ input' = [inp EXCEPT !.page = EmptyPage]
                     /\ unit' = <<>>
                     /\ fiscalYear' = <<>>
                     /\ financialsMap' = <<>>
                     /\ periods' = <<>>
                     /\ result' = errorObject(err)
                     /\ outcome' = "error"
    /\ pc' = "done"
    /\ op' = "getStockFinancialsV2"
    /\ UNCHANGED <<value, ret, periodEnding, response, fetched, statistics, error>>

\* getStockFinancials(rawSymbol, statementType, periodType): no try/catch, a
\* failed request rejects the promise
GetStockFinancials ==
    /\ pc = "idle"
    /\ UNCHANGED <<calls, moduleState, effectVars>>
    /\ \E inp \in InputsV1, net \in {"ok", "fail"} :
          /\ url' = urlV1(inp.rawSymbol, inp.statementType, inp.periodType)
          /\ IF net = "ok"
             THEN LET multiplier == multiplierOf(unitTextOf(inp.page.unitRaw))
                  IN /\ input' = inp
                     /\ unit' = unitTextOf(inp.page.unitRaw)
                     /\ fiscalYear' = fiscalYearV1(inp.page.thead)
                     /\ periodEnding' = periodEndingV1(inp.page.thead2)
                     /\ financialsMap' = financialsV1(inp.page.tbody, multiplier, <<>>)
                     /\ outcome' = "statement"
                     /\ error' = NoError
             ELSE \E err \in Thrown :
                     /\ input' = [inp EXCEPT !.page = EmptyPage]
                     /\ unit' = <<>>
                     /\ fiscalYear' = <<>>
                     /\ periodEnding' = <<>>
                     /\ financialsMap' = <<>>
                     /\ outcome' = "rejected"
                     /\ error' = err
    /\ pc' = "done"
    /\ op' = "getStockFinancials"
    /\ UNCHANGED <<value, ret, periods, result, response, fetched, statistics>>

\* fetchHtmlSafe(url): axios.get with validateStatus always true, so every
\* response is delivered whatever its status; a request with no response
\* rejects.  An error page throws, any other body is returned as it is.
FetchHtmlSafe ==
    /\ pc = "idle"
    /\ UNCHANGED <<calls, moduleState, effectVars>>
    /\ \E sy \in Symbols, net \in {"ok", "fail"} :
          /\ url' = urlStatistics(sy)
          /\ IF net = "ok"
             THEN \E res \in Responses :
                     /\ response' = res
                     /\ IF isErrorPage(res)
                        THEN /\ fetched' = NoData
                             /\ error' = ErrorV(INVALID_PAGE)
                             /\ outcome' = "rejected"
                        ELSE /\ fetched' = res.data
                             /\ error' = NoError
                             /\ outcome' = "returned"
             ELSE \E err \in Thrown :
                     /\ response' = NoResponse
                     /\ fetched' = NoData
                     /\ error' = err
                     /\ outcome' = "rejected"
    /\ pc' = "done"
    /\ op' = "fetchHtmlSafe"
    /\ UNCHANGED <<value, ret, input, unit, fiscalYear, periodEnding,
                   financialsMap, periods, result, statistics>>

\* getStockStatistics(rawSymbol): the URL, fetchHtmlSafe (whose error is not
\* caught: the record is built after it), then every table row dispatched on
\* its label
GetStockStatistics ==
    /\ pc = "idle"
    /\ UNCHANGED <<calls, moduleState, effectVars>>
    /\ \E inp \in InputsStatistics, net \in {"ok", "fail"} :
          /\ input' = [NoInput EXCEPT !.rawSymbol = inp.rawSymbol]
          /\ url' = urlStatistics(inp.rawSymbol)
          /\ IF net = "ok"
             THEN /\ response' = inp.response
                  /\ IF isErrorPage(inp.response)
                     THEN /\ fetched' = NoData
                          /\ statistics' = NoStatistics
                          /\ error' = ErrorV(INVALID_PAGE)
                          /\ outcome' = "rejected"
                     ELSE /\ fetched' = inp.response.data
                          /\ statistics' =
                                statisticsAfterRows(newStatistics, inp.response.data.rows)
                          /\ error' = NoError
                          /\ outcome' = "statistics"
             ELSE \E err \in Thrown :
                     /\ response' = NoResponse
                     /\ fetched' = NoData
                     /\ statistics' = NoStatistics
                     /\ error' = err
                     /\ outcome' = "rejected"
    /\ pc' = "done"
    /\ op' = "getStockStatistics"
    /\ UNCHANGED <<value, ret, unit, fiscalYear, periodEnding, financialsMap,
                   periods, result>>

\* getStockOverview(rawSymbol): the page is requested with axios.get outside
\* any try/catch; the fields are read from the overview table
GetStockOverview ==
    /\ pc = "idle"
    /\ UNCHANGED <<calls, moduleState, effectVars>>
    /\ \E inp \in InputsOverview, net \in {"ok", "fail"} :
          /\ url' = urlOverview(inp.rawSymbol)
          /\ IF net = "ok"
             THEN /\ input' = inp
                  /\ result' = overviewOf(inp.page.tbody)
                  /\ error' = NoError
                  /\ outcome' = "overview"
             ELSE \E err \in Thrown :
                     /\ input' = [inp EXCEPT !.page = EmptyPage]
                     /\ result' = <<>>
                     /\ error' = err
                     /\ outcome' = "rejected"
    /\ pc' = "done"
    /\ op' = "getStockOverview"
    /\ UNCHANGED <<value, ret, unit, fiscalYear, periodEnding, financialsMap,
                   periods, response, fetched, statistics>>

\* the caller takes the result; nothing of the call survives it
Return ==
    /\ pc = "done"
    /\ UNCHANGED <<calls, moduleState, effectVars>>
    /\ pc' = "idle"
    /\ op' = "none"
    /\ value' = <<>>
    /\ ret' = UndefV
    /\ input' = NoInput
    /\ url' = <<>>
    /\ unit' = <<>>
    /\ fiscalYear' = <<>>
    /\ periodEnding' = <<>>
    /\ financialsMap' = <<>>
    /\ periods' = <<>>
    /\ result' = <<>>
    /\ outcome' = "none"
    /\ response' = NoResponse
    /\ fetched' = NoData
    /\ statistics' = NoStatistics
    /\ error' = NoError

Next ==
    \/ ParseValue
    \/ ParseNumber
    \/ GetStockFinancialsV2
    \/ GetStockFinancials
    \/ FetchHtmlSafe
    \/ GetStockStatistics
    \/ GetStockOverview
    \/ Return

Spec == Init /\ [][Next]_vars

(***************************************************************************)
(* Several calls in flight at once.  An async function runs without        *)
(* interruption from one await to the next; the calls interleave at the    *)
(* awaits, in any order.  Each call has its own local variables; the       *)
(* module-level constants are read, never assigned.                        *)
(***************************************************************************)
ParTokens == {<<"1", ".", "5", "K">>, <<"n", "/", "a">>}

ParSymbols == {<<"A", "A", "P", "L">>, <<"P", "T", "T", ".", "B", "K">>}

ParResponses ==
    {MkResponse(200, Html(PageTitle, SampleRows)),
     MkResponse(200, Html(PageTitle, << <<<<"M", "a", "r", "k", "e", "t", " ", "C", "a", "p">>, <<"3", ".", "3", "1", "T">>>> >>)),
     MkResponse(404, Html(<<"4", "0", "4", " ", "-", " ", "P", "a", "g", "e", " ", "N", "o", "t", " ", "F", "o", "u", "n", "d">>, <<>>))}

ParPages ==
    {SamplePage,
     MkPage(<<"B", "i", "l", "l", "i", "o", "n", "s">>, <<FirstTh, <<"Q", "2", " ", "2", "0", "2", "4">>, LastTh>>,
            << <<<<"R", "e", "v", "e", "n", "u", "e">>, <<"2", ".", "5">>, LastTd>> >>)}

\* faulty variant: the local variables are those of the first call, as if
\* they were declared at module level
frameOfFirstCall(cs, slot) == cs[1]

\* the variables a call reads are the ones of its own invocation
frameOf(cs, slot) == cs[slot]

\* parseValue is synchronous: it returns before anything else runs
StartParseValue(slot) ==
    /\ calls[slot].pc = "idle"
    /\ \E t \in ParTokens :
          calls' = [calls EXCEPT ![slot] =
                       [NoCall EXCEPT !.fn = "parseValue", !.arg = t, !.pc = "done",
                                      !.settled = "returned", !.val = parseValue(t)]]
    /\ UNCHANGED <<callVars, moduleState, effectVars>>

\* getStockStatistics up to `await fetchHtmlSafe(url)`
StartStatistics(slot) ==
    /\ calls[slot].pc = "idle"
    /\ \E sy \in ParSymbols :
          calls' = [calls EXCEPT ![slot] =
                       [NoCall EXCEPT !.fn = "getStockStatistics", !.arg = sy,
                                      !.pc = "awaiting", !.url = urlStatistics(sy)]]
    /\ UNCHANGED <<callVars, moduleState, effectVars>>

\* the response arrives: fetchHtmlSafe throws (logging if DEBUG_SCRAPER) and
\* getStockStatistics rejects, or it returns the body
RespondStatistics(slot) ==
    /\ calls[slot].pc = "awaiting"
    /\ calls[slot].fn = "getStockStatistics"
    /\ \E res \in ParResponses :
          calls' = [calls EXCEPT ![slot] =
                       IF isErrorPage(res)
                       THEN [@ EXCEPT !.served = Served("response", res, EmptyPage, NoError),
                                      !.logged = moduleState.DEBUG_SCRAPER,
                                      !.pc = "done", !.settled = "rejected",
                                      !.val = ErrorV(INVALID_PAGE)]
                       ELSE [@ EXCEPT !.served = Served("response", res, EmptyPage, NoError),
                                      !.html = res.data, !.pc = "fetched"]]
    /\ UNCHANGED <<callVars, moduleState, effectVars>>

\* getStockStatistics after the await: the record is built and the rows of the
\* fetched page are dispatched
DispatchStatistics(slot) ==
    /\ calls[slot].pc = "fetched"
    /\ calls' = [calls EXCEPT ![slot] =
                    [@ EXCEPT !.pc = "done", !.settled = "returned",
                              !.val = statisticsAfterRows(newStatistics,
                                         frameOf(calls, slot).html.rows)]]
    /\ UNCHANGED <<callVars, moduleState, effectVars>>

\* getStockFinancialsV2 up to `await axios.get(url)`
StartFinancialsV2(slot) ==
    /\ calls[slot].pc = "idle"
    /\ \E sy \in ParSymbols :
          calls' = [calls EXCEPT ![slot] =
                       [NoCall EXCEPT !.fn = "getStockFinancialsV2", !.arg = sy,
                                      !.pc = "awaiting",
                                      !.url = urlV2(sy, "Income", "Annual")]]
    /\ UNCHANGED <<callVars, moduleState, effectVars>>

\* the page arrives and is parsed and reshaped, or the request fails and the
\* catch block (logging if DEBUG_SCRAPER) returns the error object
RespondFinancialsV2(slot) ==
    /\ calls[slot].pc = "awaiting"
    /\ calls[slot].fn = "getStockFinancialsV2"
    /\ \/ \E pg \in ParPages :
             LET multiplier == multiplierOf(unitTextOf(pg.unitRaw))
                 labels == fiscalYearV2(pg.thead)
                 fmap == financialsMapV2(pg.tbody, multiplier, <<>>)
             IN calls' = [calls EXCEPT ![slot] =
                             [@ EXCEPT !.served = Served("page", NoResponse, pg, NoError),
                                       !.pc = "done", !.settled = "resolved",
                                       !.val = reshapeV2(labels, fmap)]]
       \/ \E err \in {ErrorV(<<"N", "e", "t", "w", "o", "r", "k", " ", "E", "r", "r", "o", "r">>)} :
             calls' = [calls EXCEPT ![slot] =
                          [@ EXCEPT !.served = Served("thrown", NoResponse, EmptyPage, err),
                                    !.logged = moduleState.DEBUG_SCRAPER,
                                    !.pc = "done", !.settled = "resolved",
                                    !.val = errorObject(err)]]
    /\ UNCHANGED <<callVars, moduleState, effectVars>>

\* the caller takes the settled result
Finish(slot) ==
    /\ calls[slot].pc = "done"
    /\ calls' = [calls EXCEPT ![slot] = NoCall]
    /\ UNCHANGED <<callVars, moduleState, effectVars>>

InitInterleaved ==
    /\ Idle
    /\ calls = NoCalls
    /\ moduleState \in {LoadedModule(debug) : debug \in BOOLEAN}
    /\ NoEffects

NextInterleaved ==
    \E slot \in Slots :
       \/ StartParseValue(slot)
       \/ StartStatistics(slot)
       \/ RespondStatistics(slot)
       \/ DispatchStatistics(slot)
       \/ StartFinancialsV2(slot)
       \/ RespondFinancialsV2(slot)
       \/ Finish(slot)

SpecInterleaved == InitInterleaved /\ [][NextInterleaved]_vars

(***************************************************************************)
(* The requests a call issues.  A call is followed from its invocation,    *)
(* through its one await of the network, to the settling of its promise;   *)
(* `requests` is what the network sees.                                    *)
(***************************************************************************)
MaxCalls == 3

URL_ALPHA == <<"h", "t", "t", "p", "s", ":", "/", "/", "w", "w", "w", ".", "a", "l", "p", "h", "a", "s", "p", "r", "e", "a", "d", ".", "c", "o", "m", "/", "s", "e", "c", "u", "r", "i", "t", "y", "/">>

PATH_SUMMARY == <<"/", "s", "u", "m", "m", "a", "r", "y">>

alphaMarketMap ==
    << [suffix |-> <<".", "B", "K">>, market |-> <<"s", "e", "t">>],
       [suffix |-> <<".", "V", "N">>, market |-> <<"v", "n">>],
       [suffix |-> <<".", "I", "N">>, market |-> <<"n", "s", "e">>],
       [suffix |-> <<".", "J", "P">>, market |-> <<"t", "s", "e">>],
       [suffix |-> <<".", "M", "X">>, market |-> <<"b", "m", "v">>],
       [suffix |-> <<".", "I", "D">>, market |-> <<"i", "d", "x">>] >>

\* getAlphaValue: the suffix loop runs over marketMap, the market is read
\* from alphaMarketMap, a symbol without suffix is listed under nasdaq
urlAlpha(rawSymbol) ==
    LET si == suffixIndex(rawSymbol)
        symbol == IF si = 0 THEN rawSymbol
                  ELSE SubSeq(rawSymbol, 1, Len(rawSymbol) - Len(marketMap[si].suffix))
        market == IF si = 0 THEN <<"n", "a", "s", "d", "a", "q">> ELSE alphaMarketMap[si].market
    IN URL_ALPHA \o market \o <<"/">> \o symbol \o PATH_SUMMARY

HttpFunctions ==
    {"getStockStatistics", "getStockFinancials", "getStockFinancialsV2", "getAlphaValue"}

\* the URL each function builds before its request
urlOf(fn, rawSymbol) ==
    CASE fn = "getStockStatistics" -> urlStatistics(rawSymbol)
      [] fn = "getStockFinancials" -> urlV1(rawSymbol, "Income", "Annual")
      [] fn = "getStockFinancialsV2" -> urlV2(rawSymbol, "Income", "Annual")
      [] fn = "getAlphaValue" -> urlAlpha(rawSymbol)

\* axios.get(url) without options rejects unless 200 <= status < 300
axiosRejects(res) == res.status < 200 \/ res.status >= 300

\* what the request of a call can end in: a response, or no response at all
EffSymbols == {<<"A", "A", "P", "L">>, <<"P", "T", "T", ".", "B", "K">>}

EffResponses ==
    {MkResponse(200, Html(PageTitle, SampleRows)),
     MkResponse(404, Html(<<"4", "0", "4", " ", "-", " ", "P", "a", "g", "e", " ", "N", "o", "t", " ", "F", "o", "u", "n", "d">>, <<>>))}

\* how the promise of the call settles on what the network delivered
\* (got = FALSE: the request failed without a response)
settledOf(fn, got, res) ==
    CASE fn = "getStockStatistics" ->
            IF ~got \/ isErrorPage(res) THEN "rejected" ELSE "returned statistics"
      [] fn = "getStockFinancials" ->
            IF ~got \/ axiosRejects(res) THEN "rejected" ELSE "returned statement"
      [] fn = "getStockFinancialsV2" ->
            IF ~got \/ axiosRejects(res) THEN "returned error object"
            ELSE "returned records"
      [] fn = "getAlphaValue" ->
            IF ~got \/ isErrorPage(res) THEN "returned null" ELSE "returned values"

\* faulty variant: a URL requested before is served from memory
axiosGetCached(log, address) ==
    IF \E i \in 1..Len(log) : log[i] = address THEN log ELSE Append(log, address)

\* axios.get(url): one request goes out
axiosGet(log, address) == Append(log, address)

\* the call runs to its await: the URL is built and the request issued
Request ==
    /\ running.pc = "idle"
    /\ Len(requests) + Len(browsers) < MaxCalls
    /\ \E fn \in HttpFunctions, sy \in EffSymbols :
          /\ requests' = axiosGet(requests, urlOf(fn, sy))
          /\ running' = [NotRunning EXCEPT !.fn = fn, !.arg = sy, !.pc = "awaiting",
                                           !.url = urlOf(fn, sy),
                                           !.requestsBefore = Len(requests)]
    /\ UNCHANGED <<callVars, calls, moduleState, browsers>>

\* the request ends and the call runs to its end: nothing is requested again
Settle ==
    /\ running.pc = "awaiting"
    /\ \E got \in BOOLEAN, res \in EffResponses :
          running' = [running EXCEPT !.pc = "done",
                                     !.settled = settledOf(running.fn, got, res)]
    /\ UNCHANGED <<callVars, calls, moduleState, requests, browsers>>

\* the caller takes the settled result; the next call starts afresh
Collect ==
    /\ running.pc = "done"
    /\ running' = NotRunning
    /\ UNCHANGED <<callVars, calls, moduleState, requests, browsers>>

\* The functions that drive a headless browser: puppeteer.launch, newPage,
\* goto and content are awaited one after the other outside any try/finally,
\* so the first that fails rejects the promise there and then.
BrowserFunctions == {"getFairValueTable", "getValuation", "getWaccAndRoicV3"}

URL_VALUEINVESTING == <<"h", "t", "t", "p", "s", ":", "/", "/", "v", "a", "l", "u", "e", "i", "n", "v", "e", "s", "t", "i", "n", "g", ".", "i", "o", "/">>

PATH_INTRINSIC == <<"/", "v", "a", "l", "u", "a", "t", "i", "o", "n", "/", "i", "n", "t", "r", "i", "n", "s", "i", "c", "-", "v", "a", "l", "u", "e">>

URL_GURUFOCUS == <<"h", "t", "t", "p", "s", ":", "/", "/", "w", "w", "w", ".", "g", "u", "r", "u", "f", "o", "c", "u", "s", ".", "c", "o", "m", "/", "t", "e", "r", "m", "/", "w", "a", "c", "c", "/">>

\* getWaccAndRoicV3 rewrites X.BK to BKK:X, upper-cased; the other two use
\* the symbol as given
urlBrowser(fn, symbol) ==
    IF fn = "getWaccAndRoicV3"
    THEN URL_GURUFOCUS
            \o (IF endsWith(symbol, BK_SUFFIX)
                THEN BKK_PREFIX \o toUpperCase(slice(symbol, 0, -3))
                ELSE symbol)
    ELSE URL_VALUEINVESTING \o symbol \o PATH_INTRINSIC

\* getValuation and getWaccAndRoicV3 end with `await browser.close()`;
\* getFairValueTable returns its table without closing
closesBrowser(fn) == fn \in {"getValuation", "getWaccAndRoicV3"}

\* the awaits that follow the launch, in order, then the parsing of the page
nextStep(step) ==
    CASE step = "newPage" -> "goto"
      [] step = "goto" -> "content"
      [] step = "content" -> "parse"

\* const browser = await puppeteer.launch({ headless: true })
Launch ==
    /\ running.pc = "idle"
    /\ Len(requests) + Len(browsers) < MaxCalls
    /\ \E fn \in BrowserFunctions, sy \in EffSymbols, ok \in BOOLEAN :
          IF ok
          THEN /\ browsers' = Append(browsers, [by |-> fn, open |-> TRUE])
               /\ running' = [NotRunning EXCEPT !.fn = fn, !.arg = sy, !.pc = "newPage",
                                                !.url = urlBrowser(fn, sy),
                                                !.requestsBefore = Len(requests),
                                                !.browser = Len(browsers) + 1]
          ELSE /\ browsers' = browsers
               /\ running' = [NotRunning EXCEPT !.fn = fn, !.arg = sy, !.pc = "done",
                                                !.url = urlBrowser(fn, sy),
                                                !.requestsBefore = Len(requests),
                                                !.settled = "rejected"]
    /\ UNCHANGED <<callVars, calls, moduleState, requests>>

\* browser.newPage(), page.goto(url) and page.content(): each resolves and
\* the call goes on, or rejects and the call is over
Navigate ==
    /\ running.pc \in {"newPage", "goto", "content"}
    /\ \E ok \in BOOLEAN :
          running' = IF ok THEN [running EXCEPT !.pc = nextStep(running.pc)]
                     ELSE [running EXCEPT !.pc = "done", !.settled = "rejected"]
    /\ UNCHANGED <<callVars, calls, moduleState, requests, browsers>>

\* the page is parsed and the result returned, after browser.close() where
\* the function has one
ReturnParsed ==
    /\ running.pc = "parse"
    /\ browsers' = IF closesBrowser(running.fn)
                   THEN [browsers EXCEPT ![running.browser].open = FALSE]
                   ELSE browsers
    /\ running' = [running EXCEPT !.pc = "done", !.settled = "returned"]
    /\ UNCHANGED <<callVars, calls, moduleState, requests>>

InitEffects ==
    /\ Idle
    /\ calls = NoCalls
    /\ moduleState = LoadedModule(FALSE)
    /\ NoEffects

NextEffects ==
    \/ Request
    \/ Settle
    \/ Launch
    \/ Navigate
    \/ ReturnParsed
    \/ Collect

SpecEffects == InitEffects /\ [][NextEffects]_vars

(***************************************************************************)
(* Vocabulary of the properties.                                           *)
(***************************************************************************)
V2Done == op = "getStockFinancialsV2" /\ outcome = "records"
V1Done == op = "getStockFinancials" /\ outcome = "statement"
PVDone == op = "parseValue" /\ pc = "done"

\* t matches /^-?\d+(\.\d+)?$/
IsCleanNumeric(t) ==
    LET body == IF t # <<>> /\ t[1] = "-" THEN Tail(t) ELSE t
        dots == {i \in 1..Len(body) : body[i] = "."}
    IN /\ body # <<>>
       /\ \A i \in 1..Len(body) : body[i] \in DigitChars \cup {"."}
       /\ Cardinality(dots) <= 1
       /\ \A i \in dots : 1 < i /\ i < Len(body)

\* the number a clean numeric token denotes
ValueOf(t) ==
    LET neg == t[1] = "-"
        body == IF neg THEN Tail(t) ELSE t
        digits == SelectSeq(body, LAMBDA c : c # ".")
        dot == IF \E i \in 1..Len(body) : body[i] = "."
               THEN CHOOSE i \in 1..Len(body) : body[i] = "." ELSE Len(body)
    IN MkNum((IF neg THEN -1 ELSE 1) * DigitsToInt(digits), dot - Len(body))

Front(t) == SubSeq(t, 1, Len(t) - 1)

UnitExponent(c) ==
    CASE c = "K" -> 3 [] c = "M" -> 6 [] c = "B" -> 9 [] c = "T" -> 12

RECURSIVE NumDigits(_)
NumDigits(n) == IF n < 10 THEN 1 ELSE 1 + NumDigits(n \div 10)

\* |v| < 10^5
Below1e5(v) == v.k = "num" /\ NumDigits(Abs(v.m)) + v.e <= 5

\* |a - b| <= 0.005 and a has at most two decimals
IsRounded2(a, b) ==
    LET lo == IF a.e < b.e THEN a.e ELSE b.e
        e0 == IF lo < -3 THEN lo ELSE -3
        ai == a.m * Pow10(a.e - e0)
        bi == b.m * Pow10(b.e - e0)
    IN /\ Below1e5(a) /\ Below1e5(b)
       /\ a.e >= -2
       /\ 2 * Abs(ai - bi) <= Pow10(-2 - e0)

\* a page with a single body row of label, one value cell and the dropped
\* last cell
OneCellPage ==
    /\ Len(input.page.tbody) = 1
    /\ Len(input.page.tbody[1]) = 3
    /\ Len(financialsMap) = 1
    /\ Len(financialsMap[1].val) = 1

TheCell == input.page.tbody[1][2]
TheValue == financialsMap[1].val[1]

(***************************************************************************)
(* C1: every sentinel token ("n/a" in any letter case, "-", "--", the      *)
(* empty string, with or without surrounding white space) normalises to    *)
(* null, never to 0, in parseValue and in the table-cell parsers of        *)
(* getStockFinancials and getStockFinancialsV2.                            *)
(***************************************************************************)
C1_SentinelIsNull ==
    /\ (PVDone /\ value \in SentinelTokens) => ret = NullV
    /\ ((V2Done \/ V1Done) /\ OneCellPage /\ TheCell \in SentinelTokens)
          => TheValue = NullV

C1_Witness ==
    /\ V2Done /\ OneCellPage
    /\ TheCell = <<" ">>
    /\ unit = <<"M", "i", "l", "l", "i", "o", "n", "s", " ", "U", "S", "D">>
    /\ TheValue = NullV

(***************************************************************************)
(* C2: parseValue scales by the trailing unit letter: a decimal number     *)
(* followed by one of K, M, B, T gives the number times 1e3, 1e6, 1e9,     *)
(* 1e12.                                                                   *)
(***************************************************************************)
C2_UnitLetterScales ==
    (PVDone /\ Len(value) >= 2 /\ value[Len(value)] \in {"K", "M", "B", "T"}
            /\ IsCleanNumeric(Front(value)))
        => ret = Times(ValueOf(Front(value)), MkNum(1, UnitExponent(value[Len(value)])))

(***************************************************************************)
(* C3: parseValue strips thousands separators and a leading currency sign: *)
(* a numeric token with "," inserted and/or a leading "$" gives the same   *)
(* number as the bare token.                                               *)
(***************************************************************************)
Undecorated(t) ==
    RemoveAll(IF t # <<>> /\ t[1] = "$" THEN Tail(t) ELSE t, {","})

C3_SeparatorsAndCurrencyStripped ==
    (PVDone /\ IsCleanNumeric(Undecorated(value)))
        => ret = parseValue(Undecorated(value))

(***************************************************************************)
(* C4: a percentage token is returned as its bare number, neither divided  *)
(* by 100 nor scaled: parseValue(n%) = n, and the getStockFinancialsV2     *)
(* cell parser gives n (rounded to two decimals in a ratio-like row) for   *)
(* the cell text n%.                                                       *)
(***************************************************************************)
IsPercentOf(t) == Len(t) >= 2 /\ t[Len(t)] = "%" /\ IsCleanNumeric(Front(t))

C4_PercentIsBare ==
    /\ (PVDone /\ IsPercentOf(value)) => ret = ValueOf(Front(value))
    /\ (V2Done /\ OneCellPage /\ IsPercentOf(TheCell))
          => IF isRatioKeyV2(financialsMap[1].key)
             THEN IsRounded2(TheValue, ValueOf(Front(TheCell)))
             ELSE TheValue = ValueOf(Front(TheCell))

(***************************************************************************)
(* C5: on a clean numeric string (optional minus sign, digits, optional    *)
(* fraction) parseValue returns the number the string denotes.             *)
(***************************************************************************)
C5_CleanNumericIsItself ==
    (PVDone /\ IsCleanNumeric(value)) => ret = ValueOf(value)

C5_Witness ==
    /\ PVDone
    /\ value = <<"-", "1", "6", ".", "0", "1">>
    /\ ret = MkNum(-1601, -2)

(***************************************************************************)
(* C6: normalisation and reshaping are total: parseValue returns a number  *)
(* or null for every token, and the reshaping step of getStockFinancialsV2 *)
(* produces one well-formed record per label for every label list and      *)
(* table, the empty ones included.                                         *)
(***************************************************************************)
C6_Total ==
    /\ PVDone => ret.k \in {"num", "null"}
    /\ V2Done =>
          /\ Len(result) = Len(fiscalYear)
          /\ \A i \in 1..Len(result) : \A j \in 1..Len(result[i]) :
                result[i][j].val.k \in {"num", "null", "str"}

C6_Witness ==
    /\ PVDone
    /\ value = <<"a", "b", "c">>
    /\ ret = NullV

(***************************************************************************)
(* C7: the reshaping step emits exactly one record per period label, in    *)
(* the order of the labels, and whatever the row labels are record i has   *)
(* fiscalYear equal to label i, with the quarter and year derived from it. *)
(***************************************************************************)
C7_OneRecordPerLabel ==
    V2Done =>
       /\ Len(result) = Len(fiscalYear)
       /\ \A i \in 1..Len(result) :
             /\ ObjGet(result[i], kFiscalYear) = StrV(fiscalYear[i])
             /\ ObjGet(result[i], kQuarter) = StrV(periods[i].quarter)
             /\ ObjGet(result[i], kYear) = StrV(periods[i].year)

(***************************************************************************)
(* C8: when a field's series is shorter than the list of period labels,    *)
(* every record at an index past the end of the series holds null for that *)
(* field: the field is not omitted.                                        *)
(***************************************************************************)
C8_ShortSeriesGivesNull ==
    V2Done =>
       \A i \in 1..Len(result) :
          LET fields == normalizeKeys(financialsMap) IN
          \A j \in 1..Len(fields) :
             i > Len(fields[j].val) =>
                /\ HasKey(result[i], fields[j].key)
                /\ ObjGet(result[i], fields[j].key) = NullV

C8_Witness ==
    /\ V2Done
    /\ Len(fiscalYear) = 2
    /\ financialsMap = << [key |-> <<"R", "e", "v", "e", "n", "u", "e">>, val |-> <<MkNum(1, 1)>>] >>
    /\ ObjGet(result[1], <<"R", "e", "v", "e", "n", "u", "e">>) = MkNum(1, 1)
    /\ ObjGet(result[2], <<"R", "e", "v", "e", "n", "u", "e">>) = NullV

(***************************************************************************)
(* C9: period-label decomposition: the quarter pattern (Q, a digit, white  *)
(* space, four digits) is tried first and gives the matched Qn and its     *)
(* four digits; otherwise the fiscal-year pattern (FY, white space, four   *)
(* digits) gives "ALL" and its four digits; otherwise "ALL" and the whole  *)
(* label.  "FY 2024" gives (ALL, 2024) and "Q2 2024" gives (Q2, 2024).     *)
(***************************************************************************)
\* a match of <head> \s+ \d{4} in l: head at a, the four digits at b
IsFormAt(l, head, a, b) ==
    /\ a >= 1 /\ b + 3 <= Len(l)
    /\ b >= a + Len(head) + 1
    /\ \A h \in (a + Len(head))..(b - 1) : l[h] \in WhiteSpace
    /\ \A h \in b..(b + 3) : l[h] \in DigitChars
    /\ \A h \in 1..Len(head) :
          IF head[h] = "d" THEN l[a + h - 1] \in DigitChars ELSE l[a + h - 1] = head[h]

FormMatches(l, head) ==
    {ab \in (1..Len(l)) \X (1..Len(l)) : IsFormAt(l, head, ab[1], ab[2])}

FirstMatch(M) == CHOOSE ab \in M : \A cd \in M : ab[1] <= cd[1]

Decomposed(l, p) ==
    LET QM == FormMatches(l, <<"Q", "d">>)
        FM == FormMatches(l, <<"F", "Y">>)
    IN IF QM # {}
       THEN /\ p.quarter = SubSeq(l, FirstMatch(QM)[1], FirstMatch(QM)[1] + 1)
            /\ p.year = SubSeq(l, FirstMatch(QM)[2], FirstMatch(QM)[2] + 3)
       ELSE IF FM # {}
       THEN /\ p.quarter = ALL
            /\ p.year = SubSeq(l, FirstMatch(FM)[2], FirstMatch(FM)[2] + 3)
       ELSE p.quarter = ALL /\ p.year = l

C9_PeriodDecomposition ==
    V2Done =>
       \A i \in 1..Len(fiscalYear) :
          /\ Decomposed(fiscalYear[i], periods[i])
          /\ fiscalYear[i] = <<"F", "Y", " ", "2", "0", "2", "4">>
                => periods[i] = [quarter |-> ALL, year |-> <<"2", "0", "2", "4">>]
          /\ fiscalYear[i] = <<"Q", "2", " ", "2", "0", "2", "4">>
                => periods[i] = [quarter |-> <<"Q", "2">>, year |-> <<"2", "0", "2", "4">>]

C9_Witness ==
    /\ V2Done
    /\ fiscalYear = << <<"F", "Y", " ", "2", "0", "2", "4", "Q", "3", " ", "2", "0", "2", "3">> >>
    /\ periods = << [quarter |-> <<"Q", "3">>, year |-> <<"2", "0", "2", "3">>] >>

(***************************************************************************)
(* C10: for every period label the quarter of the record is one of "Q1",   *)
(* "Q2", "Q3", "Q4", "ALL", and the quarter form and the fiscal-year form  *)
(* never both apply to the same label.                                     *)
(***************************************************************************)
C10_QuarterInEnum ==
    V2Done =>
       \A i \in 1..Len(result) :
          /\ ObjGet(result[i], kQuarter)
                \in {StrV(<<"Q", "1">>), StrV(<<"Q", "2">>), StrV(<<"Q", "3">>), StrV(<<"Q", "4">>), StrV(ALL)}
          /\ ~(FormMatches(fiscalYear[i], <<"Q", "d">>) # {}
               /\ FormMatches(fiscalYear[i], <<"F", "Y">>) # {})

(***************************************************************************)
(* C11: a ratio-like field is never scaled by the table-wide multiplier:   *)
(* in getStockFinancialsV2, whenever the key of a record field contains    *)
(* one of the ratio keywords, the field holds the cell's own number        *)
(* rounded to two decimals, whatever the unit caption of the table.        *)
(***************************************************************************)
BaseKeys == {kFiscalYear, kQuarter, kYear}

\* the cell text without "$", "," and "%", and the surrounding white space
BareCell(c) == RemoveAll(trim(c), {"$", ",", "%"})

C11_RatioNeverScaled ==
    (V2Done /\ OneCellPage /\ IsCleanNumeric(BareCell(TheCell)))
        => \A i \in 1..Len(result) : \A j \in 1..Len(result[i]) :
              (result[i][j].key \notin BaseKeys /\ isRatioKeyV2(result[i][j].key))
                  => \/ result[i][j].val = ValueOf(BareCell(TheCell))
                     \/ IsRounded2(result[i][j].val, ValueOf(BareCell(TheCell)))

(***************************************************************************)
(* C12: key normalisation: every key of a getStockFinancialsV2 record      *)
(* other than fiscalYear, quarter and year is the label of a body row with *)
(* every "/", "(", ")" and white-space character removed and every "%"     *)
(* replaced by "Percent"; it holds none of these characters; and every     *)
(* labelled row has its normalised label as a key of every record.         *)
(***************************************************************************)
NormalizedLabel(l) ==
    Concat([i \in 1..Len(l) |->
              IF l[i] \in {"/", "(", ")"} \cup WhiteSpace THEN <<>>
              ELSE IF l[i] = "%" THEN PERCENT
              ELSE <<l[i]>>])

LabelsOf(tbody) ==
    {tbody[r][1] : r \in {q \in 1..Len(tbody) : tbody[q] # <<>> /\ trim(tbody[q][1]) # <<>>}}

C12_KeysNormalized ==
    V2Done =>
       \A i \in 1..Len(result) :
          /\ \A j \in 1..Len(result[i]) :
                result[i][j].key \notin BaseKeys =>
                   /\ \E l \in LabelsOf(input.page.tbody) :
                         result[i][j].key = NormalizedLabel(l)
                   /\ \A h \in 1..Len(result[i][j].key) :
                         result[i][j].key[h] \notin {"/", "(", ")", "%"} \cup WhiteSpace
          /\ \A l \in LabelsOf(input.page.tbody) : HasKey(result[i], NormalizedLabel(l))

C12_Witness ==
    /\ V2Done
    /\ Len(input.page.tbody) = 2
    /\ \A r \in 1..2 : Len(input.page.tbody[r]) = 3
    /\ input.page.tbody[1][1] = <<" ", "D", "e", "b", "t", " ", "/", " ", "E", "q", "u", "i", "t", "y", " ", "(", "%", ")", " ">>
    /\ input.page.tbody[2][1] = <<"P", "/", "E", " ", "%", " ", "(", "x", ")", " ", "%">>
    /\ Len(result) = 1
    /\ HasKey(result[1], <<"D", "e", "b", "t", "E", "q", "u", "i", "t", "y", "P", "e", "r", "c", "e", "n", "t">>)
    /\ HasKey(result[1], <<"P", "E", "P", "e", "r", "c", "e", "n", "t", "x", "P", "e", "r", "c", "e", "n", "t">>)

(***************************************************************************)
(* C13: the table-wide multiplier is a function of the unit caption alone: *)
(* 1e6 if the caption contains "Million", else 1e9 for "Billion", else 1e3 *)
(* for "Thousand", else 1e12 for "Trillion", else 1; and in                *)
(* getStockFinancials and getStockFinancialsV2 every numeric cell of every *)
(* row not classified ratio-like holds its number times that multiplier.   *)
(***************************************************************************)
CaptionExponent(caption) ==
    CASE includes(caption, MILLION) -> 6
      [] ~includes(caption, MILLION) /\ includes(caption, BILLION) -> 9
      [] ~includes(caption, MILLION) /\ ~includes(caption, BILLION)
            /\ includes(caption, THOUSAND) -> 3
      [] ~includes(caption, MILLION) /\ ~includes(caption, BILLION)
            /\ ~includes(caption, THOUSAND) /\ includes(caption, TRILLION) -> 12
      [] OTHER -> 0

\* the cell text without "$" and ",", and the surrounding white space
PlainCell(c) == RemoveAll(trim(c), {"$", ","})

\* no row of the page was skipped or merged with another, and the entries
\* stand in the order of the rows (an integer-like key is enumerated first)
RowsKept ==
    /\ Len(financialsMap) = Len(input.page.tbody)
    /\ \A r \in 1..Len(financialsMap) : ~IsArrayIndex(financialsMap[r].key)

C13_OneMultiplierPerTable ==
    ((V2Done \/ V1Done) /\ RowsKept) =>
       \A r \in 1..Len(financialsMap) :
          LET cells == input.page.tbody[r]
              ratio == IF V2Done THEN isRatioKeyV2(financialsMap[r].key)
                       ELSE isRatioKeyV1(financialsMap[r].key)
          IN (~ratio /\ Len(financialsMap[r].val) = Len(cells) - 2) =>
                \A c \in 1..Len(financialsMap[r].val) :
                   IsCleanNumeric(PlainCell(cells[c + 1])) =>
                      financialsMap[r].val[c] =
                         Times(ValueOf(PlainCell(cells[c + 1])),
                               MkNum(1, CaptionExponent(unit)))

C13_Witness ==
    /\ V2Done
    /\ unit = <<"M", "i", "l", "l", "i", "o", "n", "s", " ", "o", "f", " ", "B", "i", "l", "l", "i", "o", "n", "s">>
    /\ Len(financialsMap) = 3
    /\ financialsMap[1].val = <<MkNum(1, 9), MkNum(-25, 5)>>
    /\ financialsMap[2].val = <<MkNum(3, 6), NullV>>
    /\ financialsMap[3].val = <<MkNum(1235, -2), MkNum(7, 0)>>

(***************************************************************************)
(* C14: statistics dispatch: getStockStatistics returns a record with the  *)
(* same fixed set of fields for every page; a field for which no row       *)
(* carries exactly its label is null; a field whose label is carried by a  *)
(* row holds the value of the last such row (its text or its number); a    *)
(* row with any other label changes nothing.                               *)
(***************************************************************************)
StatsDone == op = "getStockStatistics" /\ outcome = "statistics"

\* the rows of the page whose first cell, trimmed, is the label of field f
RowsFor(f) ==
    {r \in 1..Len(fetched.rows) :
        /\ fetched.rows[r] # <<>>
        /\ \E i \in 1..Len(statisticsCases) :
              /\ statisticsCases[i].field = f
              /\ statisticsCases[i].label = trim(fetched.rows[r][1])}

LastRowFor(f) == CHOOSE r \in RowsFor(f) : \A q \in RowsFor(f) : q <= r

\* the trimmed text of the last cell of row r
ValueTextOf(r) == trim(fetched.rows[r][Len(fetched.rows[r])])

C14_FixedFieldsExactLabels ==
    StatsDone =>
       /\ DOMAIN statistics = statisticsFields
       /\ \A f \in statisticsFields :
             IF RowsFor(f) = {} THEN statistics[f] = NullV
             ELSE statistics[f] \in {StrV(ValueTextOf(LastRowFor(f))),
                                     parseValue(ValueTextOf(LastRowFor(f)))}

C14_Witness ==
    /\ StatsDone
    /\ fetched.rows = SampleRows
    /\ statistics["marketCap"] = MkNum(8616, 7)
    /\ statistics["peRatio"] = MkNum(315, -1)
    /\ statistics["earningsDate"] = StrV(<<"M", "a", "y", " ", "1", ",", " ", "2", "0", "2", "5">>)
    /\ \A f \in statisticsFields \ {"marketCap", "peRatio", "earningsDate"} :
          statistics[f] = NullV

(***************************************************************************)
(* C15: the two free-text fields earningsDate and exDividendDate hold the  *)
(* trimmed cell text of the rows "Earnings Date" and "Ex-Dividend Date"    *)
(* as it is, sentinels and number-like texts included; every other matched *)
(* field holds parseValue of the cell text.                                *)
(***************************************************************************)
C15_FreeTextIsRaw ==
    StatsDone =>
       \A r \in 1..Len(fetched.rows) :
          fetched.rows[r] # <<>> =>
             LET label == trim(fetched.rows[r][1]) IN
             /\ (label = <<"E", "a", "r", "n", "i", "n", "g", "s", " ", "D", "a", "t", "e">> /\ r = LastRowFor("earningsDate"))
                   => statistics["earningsDate"] = StrV(ValueTextOf(r))
             /\ (label = <<"E", "x", "-", "D", "i", "v", "i", "d", "e", "n", "d", " ", "D", "a", "t", "e">> /\ r = LastRowFor("exDividendDate"))
                   => statistics["exDividendDate"] = StrV(ValueTextOf(r))
             /\ \A f \in statisticsFields \ {"earningsDate", "exDividendDate"} :
                   (RowsFor(f) # {} /\ r = LastRowFor(f))
                      => statistics[f] = parseValue(ValueTextOf(r))

C15_Witness ==
    /\ StatsDone
    /\ fetched.rows = << <<<<"E", "a", "r", "n", "i", "n", "g", "s", " ", "D", "a", "t", "e">>, <<"n", "/", "a">>>> >>
    /\ statistics["earningsDate"] = StrV(<<"n", "/", "a">>)

(***************************************************************************)
(* C16: a Thai symbol written BKK:X is routed like X.BK: detectMarket      *)
(* gives "bkk" for it, and getStockStatistics, getStockFinancials and      *)
(* getStockFinancialsV2 request a URL under /quote/bkk/X/ for BKK:X as     *)
(* they do for X.BK.                                                       *)
(***************************************************************************)
CalledWithSymbol ==
    /\ pc = "done"
    /\ op \in {"getStockStatistics", "getStockFinancials", "getStockFinancialsV2"}

\* BKK:X for a ticker X of letters and digits
IsBkkPrefixed(sy) ==
    /\ Len(sy) > Len(BKK_PREFIX)
    /\ startsWith(sy, BKK_PREFIX)
    /\ \A i \in (Len(BKK_PREFIX) + 1)..Len(sy) : sy[i] \notin {".", ":"}

\* X.BK for a ticker X of letters and digits
IsBkSuffixed(sy) ==
    /\ Len(sy) > Len(BK_SUFFIX)
    /\ endsWith(sy, BK_SUFFIX)
    /\ \A i \in 1..(Len(sy) - Len(BK_SUFFIX)) : sy[i] \notin {".", ":"}

ThaiUrlOf(ticker) == <<"h", "t", "t", "p", "s", ":", "/", "/", "s", "t", "o", "c", "k", "a", "n", "a", "l", "y", "s", "i", "s", ".", "c", "o", "m", "/", "q", "u", "o", "t", "e", "/", "b", "k", "k", "/">> \o ticker \o <<"/">>

C16_BkkPrefixLikeSuffix ==
    CalledWithSymbol =>
       /\ IsBkSuffixed(input.rawSymbol) =>
             startsWith(url, ThaiUrlOf(SubSeq(input.rawSymbol, 1,
                                              Len(input.rawSymbol) - Len(BK_SUFFIX))))
       /\ IsBkkPrefixed(input.rawSymbol) =>
             /\ detectMarket(input.rawSymbol) = <<"b", "k", "k">>
             /\ startsWith(url, ThaiUrlOf(SubSeq(input.rawSymbol, Len(BKK_PREFIX) + 1,
                                                 Len(input.rawSymbol))))

(***************************************************************************)
(* C17: symbol routing in getStockStatistics and getStockFinancialsV2.     *)
(* As stated: a symbol ending, in any letter case, with .BK, .VN, .IN,     *)
(* .JP, .MX or .ID is requested at /quote/<market>/<symbol without the     *)
(* suffix>/ with market bkk, hose, nse, tyo, bmv, idx; any other symbol at *)
(* /stocks/<symbol in lower case>/; at most one suffix applies and the     *)
(* requested URL never contains the suffix.                                *)
(* As the code has it: the suffix is cut once, from the end, and a leading *)
(* "BKK:" (in any letter case) is cut from what is left; a symbol with no  *)
(* suffix and no such prefix goes to /stocks/<symbol in lower case>/.      *)
(* (A symbol BKK:X with no suffix is the subject of C16.)                  *)
(***************************************************************************)
CalledWithSuffixRouting ==
    /\ pc = "done"
    /\ op \in {"getStockStatistics", "getStockFinancialsV2"}

ClaimedMarkets ==
    {<<<<".", "B", "K">>, <<"b", "k", "k">>>>, <<<<".", "V", "N">>, <<"h", "o", "s", "e">>>>, <<<<".", "I", "N">>, <<"n", "s", "e">>>>,
     <<<<".", "J", "P">>, <<"t", "y", "o">>>>, <<<<".", "M", "X">>, <<"b", "m", "v">>>>, <<<<".", "I", "D">>, <<"i", "d", "x">>>>}

\* the suffixes that end the symbol, with their markets
AppliedTo(sy) == {sm \in ClaimedMarkets : endsWith(toUpperCase(sy), sm[1])}

WithoutSuffix(sy, sm) == SubSeq(sy, 1, Len(sy) - Len(sm[1]))

WithoutBkkPrefix(sy) ==
    IF startsWith(toUpperCase(sy), <<"B", "K", "K", ":">>)
    THEN SubSeq(sy, 5, Len(sy)) ELSE sy

QuoteUrlOf(market, ticker) ==
    <<"h", "t", "t", "p", "s", ":", "/", "/", "s", "t", "o", "c", "k", "a", "n", "a", "l", "y", "s", "i", "s", ".", "c", "o", "m", "/", "q", "u", "o", "t", "e", "/">> \o market \o <<"/">> \o ticker \o <<"/">>

StocksUrlOf(ticker) == <<"h", "t", "t", "p", "s", ":", "/", "/", "s", "t", "o", "c", "k", "a", "n", "a", "l", "y", "s", "i", "s", ".", "c", "o", "m", "/", "s", "t", "o", "c", "k", "s", "/">> \o ticker \o <<"/">>

C17_RoutingBySuffix ==
    CalledWithSuffixRouting =>
       LET sy == input.rawSymbol IN
       /\ Cardinality(AppliedTo(sy)) <= 1
       /\ \A sm \in AppliedTo(sy) :
             startsWith(url, QuoteUrlOf(sm[2], WithoutBkkPrefix(WithoutSuffix(sy, sm))))
       /\ (AppliedTo(sy) = {} /\ WithoutBkkPrefix(sy) = sy) =>
             startsWith(url, StocksUrlOf(toLowerCase(sy)))

C17_Witness ==
    /\ CalledWithSuffixRouting
    /\ input.rawSymbol = <<"v", "c", "b", ".", "v", "n">>
    /\ startsWith(url, <<"h", "t", "t", "p", "s", ":", "/", "/", "s", "t", "o", "c", "k", "a", "n", "a", "l", "y", "s", "i", "s", ".", "c", "o", "m", "/", "q", "u", "o", "t", "e", "/", "h", "o", "s", "e", "/", "v", "c", "b", "/">>)

C17_AsStated ==
    CalledWithSuffixRouting =>
       LET sy == input.rawSymbol IN
       /\ Cardinality(AppliedTo(sy)) <= 1
       /\ \A sm \in AppliedTo(sy) :
             /\ startsWith(url, QuoteUrlOf(sm[2], WithoutSuffix(sy, sm)))
             /\ ~includes(toUpperCase(url), sm[1])
       /\ AppliedTo(sy) = {} => startsWith(url, StocksUrlOf(toLowerCase(sy)))

(***************************************************************************)
(* C18: getStockFinancialsV2 reports failure as a value: its promise never *)
(* rejects; when a step throws it resolves to {error: true, message,       *)
(* stack}, otherwise to the array of period records, one per label.        *)
(***************************************************************************)
V2Settled == pc = "done" /\ op = "getStockFinancialsV2"

C18_FailureIsValue ==
    V2Settled =>
       /\ outcome \in {"records", "error"}
       /\ error = NoError
       /\ outcome = "error" =>
             /\ [i \in 1..Len(result) |-> result[i].key] = <<kError, kMessage, kStack>>
             /\ ObjGet(result, kError) = TrueV
             /\ ObjGet(result, kMessage).k = "str"
             /\ ObjGet(result, kMessage).s # <<>>
             /\ ObjGet(result, kStack).k \in {"str", "undefined"}
       /\ outcome = "records" =>
             /\ Len(result) = Len(fiscalYear)
             /\ \A i \in 1..Len(result) :
                   ObjGet(result[i], kFiscalYear).k \in {"str", "num", "null"}

C18_Witness ==
    /\ V2Settled
    /\ outcome = "error"
    /\ input.rawSymbol = <<"P", "T", "T", ".", "B", "K">>
    /\ ObjGet(result, kMessage) = StrV(<<"R", "e", "q", "u", "e", "s", "t", " ", "f", "a", "i", "l", "e", "d", " ", "w", "i", "t", "h", " ", "s", "t", "a", "t", "u", "s", " ", "c", "o", "d", "e", " ", "4", "0", "4">>)
    /\ ObjGet(result, kStack) = StrV(<<"E", "r", "r", "o", "r", ":", " ", "R", "e", "q", "u", "e", "s", "t", " ", "f", "a", "i", "l", "e", "d", " ", "w", "i", "t", "h", " ", "s", "t", "a", "t", "u", "s", " ", "c", "o", "d", "e", " ", "4", "0", "4">>)

(***************************************************************************)
(* C19: fetchHtmlSafe returns the response body as it is exactly when the  *)
(* status is below 400, the body is a non-empty string and the body does   *)
(* not contain "Page Not Found"; for every other response it throws        *)
(* Error("Invalid page content (likely a 404 page)"), and                  *)
(* getStockStatistics rejects with that error, returning no record.        *)
(***************************************************************************)
Responded ==
    /\ pc = "done"
    /\ op \in {"fetchHtmlSafe", "getStockStatistics"}
    /\ response # NoResponse

BodyIsNonEmptyString ==
    response.data.k = "str" /\ (response.data.text # <<>> \/ response.data.rows # <<>>)

BodyContains(sub) ==
    \E piece \in {response.data.text}
                 \cup UNION {{response.data.rows[r][c] : c \in 1..Len(response.data.rows[r])} :
                                r \in 1..Len(response.data.rows)} :
       includes(piece, sub)

C19_ErrorPageThrows ==
    Responded =>
       IF response.status < 400 /\ BodyIsNonEmptyString
             /\ ~BodyContains(<<"P", "a", "g", "e", " ", "N", "o", "t", " ", "F", "o", "u", "n", "d">>)
       THEN /\ outcome \in {"returned", "statistics"}
            /\ fetched = response.data
            /\ error = NoError
            /\ (op = "getStockStatistics") = (statistics # NoStatistics)
       ELSE /\ outcome = "rejected"
            /\ error = ErrorV(<<"I", "n", "v", "a", "l", "i", "d", " ", "p", "a", "g", "e", " ", "c", "o", "n", "t", "e", "n", "t", " ", "(", "l", "i", "k", "e", "l", "y", " ", "a", " ", "4", "0", "4", " ", "p", "a", "g", "e", ")">>)
            /\ fetched = NoData
            /\ statistics = NoStatistics

C19_Witness ==
    /\ Responded
    /\ op = "getStockStatistics"
    /\ response = MkResponse(200, Html(<<"4", "0", "4", " ", "-", " ", "P", "a", "g", "e", " ", "N", "o", "t", " ", "F", "o", "u", "n", "d">>, <<>>))
    /\ outcome = "rejected"
    /\ error = ErrorV(<<"I", "n", "v", "a", "l", "i", "d", " ", "p", "a", "g", "e", " ", "c", "o", "n", "t", "e", "n", "t", " ", "(", "l", "i", "k", "e", "l", "y", " ", "a", " ", "4", "0", "4", " ", "p", "a", "g", "e", ")">>)
    /\ statistics = NoStatistics

(***************************************************************************)
(* C20: invocations are independent: with several calls of parseValue,     *)
(* getStockStatistics and getStockFinancialsV2 in flight at once on        *)
(* different inputs, every call settles with the value it gives when it    *)
(* runs alone on its argument and on what the network served it.           *)
(***************************************************************************)
\* the result of the call run alone
AloneSettled(c) ==
    CASE c.fn = "parseValue" -> "returned"
      [] c.fn = "getStockStatistics" ->
            IF isErrorPage(c.served.response) THEN "rejected" ELSE "returned"
      [] c.fn = "getStockFinancialsV2" -> "resolved"

AloneValue(c) ==
    CASE c.fn = "parseValue" -> parseValue(c.arg)
      [] c.fn = "getStockStatistics" ->
            IF isErrorPage(c.served.response) THEN ErrorV(INVALID_PAGE)
            ELSE statisticsAfterRows(newStatistics, c.served.response.data.rows)
      [] c.fn = "getStockFinancialsV2" ->
            IF c.served.kind = "thrown" THEN errorObject(c.served.thrown)
            ELSE reshapeV2(fiscalYearV2(c.served.page.thead),
                           financialsMapV2(c.served.page.tbody,
                              multiplierOf(unitTextOf(c.served.page.unitRaw)), <<>>))

HttpCallSettled == running.pc = "done" /\ running.fn \in HttpFunctions

AlignedTable(pg) ==
    /\ Len(pg.thead) >= 2
    /\ \A r \in 1..Len(pg.tbody) : Len(pg.tbody[r]) = Len(pg.thead)

LabelledRows(pg) == {r \in 1..Len(pg.tbody) : rowKeyV2(pg.tbody[r]) # <<>>}

\* the last row carrying a key
LastRowWithKey(pg, key) ==
    CHOOSE r \in LabelledRows(pg) :
       /\ rowKeyV2(pg.tbody[r]) = key
       /\ \A q \in LabelledRows(pg) : rowKeyV2(pg.tbody[q]) = key => q <= r

\* the value of column c (1-based cell index) of row r
ColumnValueV2(pg, r, c) ==
    cellValueV2(rowKeyV2(pg.tbody[r]), multiplierOf(unit), pg.tbody[r][c])

PeriodFieldsOf(label) ==
    {[key |-> kFiscalYear, val |-> StrV(label)],
     [key |-> kQuarter, val |-> StrV(periodOf(label).quarter)],
     [key |-> kYear, val |-> StrV(periodOf(label).year)]}

PeriodTextOf(th) ==
    IF trim(th.hidden) # <<>> THEN trim(th.hidden) ELSE trim(th.text)

\* the value of column c (1-based cell index) of a body row
ColumnValueV1(row, c) == cellValueV1(rowKeyV1(row), multiplierOf(unit), row[c])

\* index i of the three lists is column i + d of the table, for one d
SameColumnV1(pg, d) ==
    /\ \A i \in 1..Len(fiscalYear) :
          /\ i + d \in 1..Len(pg.thead)
          /\ fiscalYear[i] = trim(pg.thead[i + d])
          /\ periodEnding[i] = PeriodTextOf(pg.thead2[i + d])
    /\ \A e \in 1..Len(financialsMap) :
          \E r \in 1..Len(pg.tbody) :
             /\ rowKeyV1(pg.tbody[r]) = financialsMap[e].key
             /\ \A i \in 1..Len(financialsMap[e].val) :
                   /\ i + d \in 1..Len(pg.tbody[r])
                   /\ financialsMap[e].val[i] = ColumnValueV1(pg.tbody[r], i + d)

C23_ColumnsAlignedV1 ==
    (V1Done /\ AlignedTable(input.page)) =>
       /\ Len(periodEnding) = Len(fiscalYear)
       /\ \A e \in 1..Len(financialsMap) : Len(financialsMap[e].val) = Len(fiscalYear)
       /\ \E d \in 0..Len(input.page.thead) : SameColumnV1(input.page, d)

(***************************************************************************)
(* C24: in getStockFinancialsV2 the ratio/currency classification of a row *)
(* is decided on its normalized key, the key under which its values appear *)
(* in the records: the value of a numeric cell is the cell's number        *)
(* rounded to two decimals if and only if the normalized key contains one  *)
(* of the keywords, and the number times the table multiplier otherwise.   *)
(***************************************************************************)
\* the key of the single row as it appears in the records
TheOutputKey == newKeyOf(financialsMap[1].key)

C24_ClassifiedOnNormalizedKey ==
    (V2Done /\ OneCellPage /\ IsCleanNumeric(BareCell(TheCell))) =>
       LET number == ValueOf(BareCell(TheCell)) IN
       IF isRatioKeyV2(TheOutputKey)
       THEN TheValue = toFixed2(number)
       ELSE TheValue = Times(number, multiplierOf(unit))

(***************************************************************************)
(* C25: classification and precision in getStockFinancials and             *)
(* getStockFinancialsV2.  A row is ratio-like exactly when the key the     *)
(* parser reads from its first cell contains, in this letter case and      *)
(* anywhere, a keyword of the parser's set (so a key containing "RO" is    *)
(* ratio-like); a ratio-like value is the cell's number rounded to two     *)
(* decimals, every other value is the number times the table multiplier,   *)
(* unrounded.                                                              *)
(***************************************************************************)
KeywordsV1 == {MARGIN, GROWTH, YIELD, RATIO, PER_SHARE, TAX_RATE, TURNOVER, RO, PAYOUT}

KeywordsV2 ==
    {EPS, MARGIN, GROWTH, YIELD, RATIO, PERSHARE, TAXRATE, TURNOVER, RO, PAYOUT,
     FORWARDPE}

\* sub occurs in str, letter case included
OccursIn(sub, str) ==
    \E i \in 0..(Len(str) - Len(sub)) : SubSeq(str, i + 1, i + Len(sub)) = sub

HasKeyword(key, keywords) == \E kw \in keywords : OccursIn(kw, key)

\* val is number to two decimals: no third decimal, at most 0.005 away
RoundedTo2(val, number) == val.k = "num" /\ IsRounded2(val, number)

\* the cell text without "$" and ",", and the surrounding white space
MoneyCell(c) == RemoveAll(trim(c), {"$", ","})

C25_KeywordClassification ==
    /\ (V2Done /\ OneCellPage /\ IsCleanNumeric(BareCell(TheCell))) =>
          IF HasKeyword(financialsMap[1].key, KeywordsV2)
          THEN RoundedTo2(TheValue, ValueOf(BareCell(TheCell)))
          ELSE TheValue = Times(ValueOf(BareCell(TheCell)), MkNum(1, CaptionExponent(unit)))
    /\ (V1Done /\ OneCellPage /\ IsCleanNumeric(MoneyCell(TheCell))) =>
          IF HasKeyword(financialsMap[1].key, KeywordsV1)
          THEN RoundedTo2(TheValue, ValueOf(MoneyCell(TheCell)))
          ELSE TheValue = Times(ValueOf(MoneyCell(TheCell)), MkNum(1, CaptionExponent(unit)))

\* "EUROPE Sales" holds "RO": under "Millions" its value is rounded, not scaled
C25_Witness ==
    /\ V2Done /\ OneCellPage
    /\ unit = <<"M", "i", "l", "l", "i", "o", "n", "s", " ", "U", "S", "D">>
    /\ financialsMap[1].key = <<"E", "U", "R", "O", "P", "E", "S", "a", "l", "e", "s">>
    /\ TheCell = <<"1", ",", "2", "3", "4", ".", "5", "6", "7">>
    /\ TheValue = MkNum(123457, -2)

(***************************************************************************)
(* C26: the two suffix policies.  On a decimal number followed by B, M or  *)
(* K the numeric parser inside getStockOverview returns undefined while    *)
(* parseValue returns the number times 1e9, 1e6 or 1e3.  On a token both   *)
(* accept that has no unit suffix, no ",", "%" or "$" and no white space   *)
(* inside it, the two return the same number.  As stated, without the      *)
(* exclusion of "$" and of inner white space: parseNumber deletes them     *)
(* wherever they stand, parseValue stops reading at them.                  *)
(***************************************************************************)
PNDone == op = "parseNumber" /\ pc = "done"

\* a decimal number followed by B, M or K
IsUnitToken(t) ==
    Len(t) >= 2 /\ t[Len(t)] \in {"B", "M", "K"} /\ IsCleanNumeric(Front(t))

AcceptedByBoth(t) == parseNumber(t).k = "num" /\ parseValue(t).k = "num"

\* no unit letter at the end, no thousands separator, no percent sign
NoSuffixSeparatorPercent(t) ==
    /\ t # <<>>
    /\ t[Len(t)] \notin {"B", "M", "K", "T"}
    /\ \A i \in 1..Len(t) : t[i] \notin {",", "%"}

\* no "$" anywhere and no white space between the first and last character
NoInnerSpaceOrDollar(t) ==
    /\ \A i \in 1..Len(t) : t[i] # "$"
    /\ \A i \in 1..Len(trim(t)) : trim(t)[i] \notin WhiteSpace

UnitTokenPolicies ==
    (PNDone /\ IsUnitToken(value)) =>
       /\ ret = UndefV
       /\ parseValue(value) =
             Times(ValueOf(Front(value)), MkNum(1, UnitExponent(value[Len(value)])))

OverviewDone == op = "getStockOverview" /\ outcome = "overview"

NumericFields ==
    {"eps", "peRatio", "forwardPERatio", "open", "previousClose", "beta", "volume"}

\* the labels under which a numeric field is looked up
LabelsOfField(f) ==
    CASE f = "eps" -> {<<"E", "P", "S", " ", "(", "t", "t", "m", ")">>}
      [] f = "peRatio" -> {<<"P", "E", " ", "R", "a", "t", "i", "o">>}
      [] f = "forwardPERatio" -> {<<"F", "o", "r", "w", "a", "r", "d", " ", "P", "E">>, <<"F", "o", "r", "w", "a", "r", "d", " ", "P", "/", "E">>}
      [] f = "open" -> {<<"O", "p", "e", "n">>}
      [] f = "previousClose" -> {<<"P", "r", "e", "v", "i", "o", "u", "s", " ", "C", "l", "o", "s", "e">>}
      [] f = "beta" -> {<<"B", "e", "t", "a">>}
      [] f = "volume" -> {<<"V", "o", "l", "u", "m", "e">>}

\* a table of one row: the text of the field's cell, "" when the row is not
\* the field's
CellTextOfField(f) ==
    IF input.page.tbody[1][1] \in LabelsOfField(f)
    THEN trim(input.page.tbody[1][2]) ELSE <<>>

C27_AbsentNeverZero ==
    (OverviewDone /\ Len(input.page.tbody) = 1) =>
       \A f \in NumericFields :
          IF IsCleanNumeric(CellTextOfField(f))
          THEN result[f] = ValueOf(CellTextOfField(f))
          ELSE (CellTextOfField(f) \in {<<>>, <<"n", "/", "a">>, <<"-">>, <<"a", "b", "c">>})
                  => result[f] \in {UndefV, NullV}

(***************************************************************************)
(* C28: browser lifecycle: every browser launched by getFairValueTable,    *)
(* getValuation or getWaccAndRoicV3 is closed by the time the promise of   *)
(* the call settles, resolved or rejected; no call leaves a launched       *)
(* browser open.                                                           *)
(***************************************************************************)
C28_BrowserClosedOnSettle ==
    /\ (running.pc = "done" /\ running.fn \in BrowserFunctions /\ running.browser # 0)
          => ~browsers[running.browser].open
    /\ running.pc = "idle" => \A b \in 1..Len(browsers) : ~browsers[b].open

(***************************************************************************)
(* C29: the statistics dispatch goes through the rows in document order    *)
(* and the last row wins: a row carrying the label of a field, with no     *)
(* later row carrying it, decides the field (parseValue of its text, the   *)
(* text itself for the two free-text fields), so a later sentinel row sets *)
(* a field back to null; a field whose label never occurred is null.       *)
(***************************************************************************)
FreeTextFields == {"earningsDate", "exDividendDate"}

\* row r carries the label of field f
Carries(r, f) == r \in RowsFor(f)

\* what a row gives to a field
GivenBy(r, f) ==
    IF f \in FreeTextFields THEN StrV(ValueTextOf(r)) ELSE parseValue(ValueTextOf(r))

C29_LastRowWins ==
    StatsDone =>
       \A f \in statisticsFields :
          /\ \A r \in 1..Len(fetched.rows) :
                (Carries(r, f) /\ \A q \in (r + 1)..Len(fetched.rows) : ~Carries(q, f))
                   => statistics[f] = GivenBy(r, f)
          /\ (\A r \in 1..Len(fetched.rows) : ~Carries(r, f)) => statistics[f] = NullV

\* a number, then a sentinel for the same label: the field is null again
C29_Witness ==
    /\ StatsDone
    /\ fetched.rows = << <<<<"P", "E", " ", "R", "a", "t", "i", "o">>, <<"3", "1", ".", "5">>>>, <<<<"M", "a", "r", "k", "e", "t", " ", "C", "a", "p">>, <<"8", "6", ".", "1", "6", "B">>>>,
                         <<<<"M", "a", "r", "k", "e", "t", " ", "C", "a", "p">>, <<"n", "/", "a">>>> >>
    /\ statistics["marketCap"] = NullV
    /\ statistics["peRatio"] = MkNum(315, -1)

(***************************************************************************)
(* C30: key collisions in getStockFinancialsV2.  When several rows have    *)
(* the same label, or labels that give the same normalized key, every      *)
(* record holds under that key the value of the last of these rows; every  *)
(* record has one entry for each distinct normalized key besides the three *)
(* period fields, and a row with an empty label contributes no key.        *)
(***************************************************************************)
OutputKeyOfRow(pg, r) == newKeyOf(rowKeyV2(pg.tbody[r]))

\* the last row giving an output key
LaterRowWithOutputKey(pg, key) ==
    CHOOSE r \in LabelledRows(pg) :
       /\ OutputKeyOfRow(pg, r) = key
       /\ \A q \in LabelledRows(pg) : OutputKeyOfRow(pg, q) = key => q <= r

OutputKeys(pg) == {OutputKeyOfRow(pg, r) : r \in LabelledRows(pg)}

PeriodKeys == {kFiscalYear, kQuarter, kYear}

KeysOfRecord(rec) == {rec[e].key : e \in 1..Len(rec)}

C30_LaterRowWins ==
    (V2Done /\ AlignedTable(input.page)) =>
       LET pg == input.page IN
       \A i \in 1..Len(result) :
          /\ KeysOfRecord(result[i]) = PeriodKeys \cup OutputKeys(pg)
          /\ \A e, g \in 1..Len(result[i]) :
                result[i][e].key = result[i][g].key => e = g
          /\ \A key \in OutputKeys(pg) :
                ObjGet(result[i], key) =
                   ColumnValueV2(pg, LaterRowWithOutputKey(pg, key), i + 1)

====
